---- MODULE Spec2Model ----
(***************************************************************************)
(* Model of the reference-integrity and tree-mutation engine of            *)
(* docling_core.types.doc.document.DoclingDocument.                        *)
(*                                                                         *)
(* A reference "#/texts/3" is the record [c |-> "texts", i |-> 3]; "#/body"*)
(* and "#/furniture" are [c |-> "body", i |-> 0], [c |-> "furniture",      *)
(* i |-> 0]; Python's None is NoneRef.  Indices are 0-based as in the      *)
(* source; a TLA+ sequence position is index + 1.  A Python object handle  *)
(* (the NodeItem a caller passes in) is the position the object occupies:  *)
(* a record of the same shape, whose i is the real list index, whereas     *)
(* get_ref() reads the self_ref the object stores.                         *)
(***************************************************************************)
EXTENDS Integers, Sequences, FiniteSets, TLC

VARIABLES doc, nextUid, last, shelf, table, pending

vars == <<doc, nextUid, last, shelf, table, pending>>

\* ------------------------------------------------------------------ bounds
MaxNodes == 3
MaxRefs == 2
MaxDepth == 6
MaxPage == 2
MaxDocs == 2

\* Rows and columns of a table; rows and indices in one list argument
MaxRows == 3
MaxCols == 2
MaxArgs == 2

\* Rows and columns of a table that is constructed with rows and filled
\* cell by cell
MaxBuiltRows == 2
MaxBuiltCols == 1

\* Digits in one numeral of a version string
MaxDigits == 2

\* ------------------------------------------------------------ data model
Collections == {"groups", "texts", "pictures", "tables", "key_value_items", "form_items"}

Ref(c, i) == [c |-> c, i |-> i]
NoneRef == Ref("none", 0)
BodyRef == Ref("body", 0)
FurnitureRef == Ref("furniture", 0)

GroupKinds == {"group", "list_group"}
TextKinds == {"text", "list_item"}
FloatingKinds == {"picture", "table", "key_value", "form"}
DocItemKinds == TextKinds \cup FloatingKinds

\* _append_item's isinstance dispatch: the collection an item of a kind lives in
CollectionOf(kind) ==
    CASE kind \in TextKinds -> "texts"
      [] kind = "table" -> "tables"
      [] kind = "picture" -> "pictures"
      [] kind = "key_value" -> "key_value_items"
      [] kind = "form" -> "form_items"
      [] OTHER -> "groups"

\* A NodeItem.  uid stands for the node's content (its text, name, data).
NodeItem(uid, kind, self_ref, parent, layer, captions, prov) ==
    [uid |-> uid, kind |-> kind, self_ref |-> self_ref, parent |-> parent,
     children |-> <<>>, content_layer |-> layer, captions |-> captions,
     cells |-> <<>>, prov |-> prov]

EmptyDoc ==
    [body |-> NodeItem(0, "group", BodyRef, NoneRef, "body", <<>>, <<>>),
     furniture |-> NodeItem(0, "group", FurnitureRef, NoneRef, "furniture", <<>>, <<>>),
     groups |-> <<>>, texts |-> <<>>, pictures |-> <<>>, tables |-> <<>>,
     key_value_items |-> <<>>, form_items |-> <<>>, pages |-> {}]

\* ------------------------------------------------------- sequence helpers
Range(s) == {s[k] : k \in 1..Len(s)}

RemoveAt(s, k) == SubSeq(s, 1, k - 1) \o SubSeq(s, k + 1, Len(s))

InsertAt(s, k, x) == SubSeq(s, 1, k - 1) \o <<x>> \o SubSeq(s, k, Len(s))

\* list.index(x): 0-based index of the first occurrence, -1 for ValueError
IndexOf(s, x) ==
    IF \E k \in 1..Len(s) : s[k] = x
    THEN (CHOOSE k \in 1..Len(s) : s[k] = x /\ \A j \in 1..(k - 1) : s[j] # x) - 1
    ELSE -1

\* ----------------------------------------------------------- resolution
\* The handles of the objects a document owns
Handles(d) ==
    {BodyRef, FurnitureRef} \cup
    UNION {{Ref(c, i) : i \in 0..(Len(d[c]) - 1)} : c \in Collections}

NoHandle == Ref("dangling", 0)

\* RefItem.resolve: doc.<path>[index] with Python's list indexing, where a
\* negative index counts from the end; NoHandle stands for IndexError.
resolve(d, ref) ==
    IF ref.c \in {"body", "furniture"} THEN Ref(ref.c, 0)
    ELSE IF ref.c \notin Collections THEN NoHandle
    ELSE LET n == Len(d[ref.c]) IN
         IF ref.i >= 0 /\ ref.i < n THEN Ref(ref.c, ref.i)
         ELSE IF ref.i < 0 /\ ref.i >= -n THEN Ref(ref.c, n + ref.i)
         ELSE NoHandle

\* The object at a handle
Node(d, h) == IF h.c \in Collections THEN d[h.c][h.i + 1] ELSE d[h.c]

\* In-place mutation of the object at a handle
SetNode(d, h, node) ==
    IF h.c \in Collections
    THEN [d EXCEPT ![h.c] = [@ EXCEPT ![h.i + 1] = node]]
    ELSE [d EXCEPT ![h.c] = node]

get_ref(node) == node.self_ref

\* Outcome of a method that mutates the document: st is "ok" (True or normal
\* return), "fail" (False), "raise" (an exception left the method) or "hang"
\* (the method does not return)
Out(st, d) == [st |-> st, doc |-> d]

RaiseRef == Ref("raise", 0)

\* ------------------------------------------------- NodeItem tree methods
\* NodeItem._get_parent_ref: the parent reference of the node at `stack`
\* below the node at handle h; NoneRef for None, RaiseRef for IndexError
RECURSIVE get_parent_ref(_, _, _)
get_parent_ref(d, h, stack) ==
    LET self == Node(d, h) IN
    IF Len(stack) = 0 THEN self.parent
    ELSE IF stack[1] < Len(self.children)
    THEN LET item == resolve(d, self.children[stack[1] + 1]) IN
         IF item = NoHandle THEN RaiseRef
         ELSE get_parent_ref(d, item, Tail(stack))
    ELSE NoneRef

\* NodeItem._delete_child
RECURSIVE delete_child(_, _, _)
delete_child(d, h, stack) ==
    LET self == Node(d, h) IN
    IF Len(stack) = 1 /\ stack[1] < Len(self.children)
    THEN Out("ok", SetNode(d, h, [self EXCEPT !.children = RemoveAt(@, stack[1] + 1)]))
    ELSE IF Len(stack) > 1 /\ stack[1] < Len(self.children)
    THEN LET item == resolve(d, self.children[stack[1] + 1]) IN
         IF item = NoHandle THEN Out("raise", d)
         ELSE delete_child(d, item, Tail(stack))
    ELSE Out("fail", d)

\* "ensure the parent is correct": new_item.parent = self.get_ref(), then the
\* change of self.children (both through the live objects, in this order):
\* new_ref becomes the entry at 0-based position pos
LinkUnder(d, h, new_ref, pos) ==
    LET new_item == resolve(d, new_ref) IN
    IF new_item = NoHandle THEN Out("raise", d)
    ELSE LET d1 == SetNode(d, new_item,
                       [Node(d, new_item) EXCEPT !.parent = get_ref(Node(d, h))])
         IN  Out("ok", SetNode(d1, h,
                       [Node(d1, h) EXCEPT !.children = InsertAt(@, pos + 1, new_ref)]))

\* NodeItem._add_child
RECURSIVE add_child(_, _, _, _)
add_child(d, h, stack, new_ref) ==
    LET self == Node(d, h) IN
    IF Len(stack) = 0
    THEN LinkUnder(d, h, new_ref, Len(self.children))
    ELSE IF stack[1] < Len(self.children)
    THEN LET item == resolve(d, self.children[stack[1] + 1]) IN
         IF item = NoHandle THEN Out("raise", d)
         ELSE add_child(d, item, Tail(stack), new_ref)
    ELSE Out("fail", d)

\* NodeItem._add_sibling
RECURSIVE add_sibling(_, _, _, _, _)
add_sibling(d, h, stack, new_ref, after) ==
    LET self == Node(d, h) IN
    IF Len(stack) = 1 /\ stack[1] <= Len(self.children) /\ ~after
    THEN LinkUnder(d, h, new_ref, stack[1])
    ELSE IF Len(stack) = 1 /\ stack[1] < Len(self.children) /\ after
    THEN LinkUnder(d, h, new_ref, stack[1] + 1)
    ELSE IF Len(stack) > 1 /\ stack[1] < Len(self.children)
    THEN LET item == resolve(d, self.children[stack[1] + 1]) IN
         IF item = NoHandle THEN Out("raise", d)
         ELSE add_sibling(d, item, Tail(stack), new_ref, after)
    ELSE Out("fail", d)

\* ------------------------------------------- private manipulation methods
StackOut(st, stack) == [st |-> st, stack |-> stack]

\* The while loop of _get_stack_of_refitem.  "hang" marks a parent chain that
\* never reaches None (the loop would not end).
RECURSIVE StackWalk(_, _, _, _, _)
StackWalk(d, node, parent_ref, stack, fuel) ==
    IF parent_ref = NoneRef THEN StackOut("ok", stack)
    ELSE IF fuel = 0 THEN StackOut("hang", stack)
    ELSE LET parent == resolve(d, parent_ref) IN
         IF parent = NoHandle THEN StackOut("raise", <<>>)
         ELSE LET index == IndexOf(Node(d, parent).children, get_ref(Node(d, node))) IN
              IF index < 0 THEN StackOut("raise", <<>>)
              ELSE StackWalk(d, parent, Node(d, parent).parent, <<index>> \o stack, fuel - 1)

\* DoclingDocument._get_stack_of_refitem: "ok" is (True, stack), "fail" is
\* (False, []), "raise" an IndexError/ValueError of resolve()/index()
get_stack_of_refitem(d, ref) ==
    IF ref = get_ref(d.body) THEN StackOut("ok", <<>>)
    ELSE LET node == resolve(d, ref) IN
         IF node = NoHandle THEN StackOut("raise", <<>>)
         ELSE IF Node(d, node).parent = NoneRef THEN StackOut("fail", <<>>)
         ELSE StackWalk(d, node, Node(d, node).parent, <<>>, MaxDepth)

\* DoclingDocument._get_stack_of_item
get_stack_of_item(d, h) == get_stack_of_refitem(d, get_ref(Node(d, h)))

\* DoclingDocument._append_item: the item gets the next index of its
\* collection as self_ref, and parent_ref as parent
append_item(d, item, parent_ref) ==
    LET c == CollectionOf(item.kind)
        cref == Ref(c, Len(d[c]))
    IN  [d EXCEPT ![c] = Append(@, [item EXCEPT !.self_ref = cref, !.parent = parent_ref])]

\* The handle and reference of the item _append_item has just stored
AppendedRef(d, item) == Ref(CollectionOf(item.kind), Len(d[CollectionOf(item.kind)]))

\* DoclingDocument._pop_item for an item with the given self_ref
\* (ValueError for a path that is not "#/<collection>/<index>" or an index
\* that is not the last one; IndexError of `del collection[-1]` on an empty
\* collection)
pop_item(d, self_ref) ==
    IF self_ref.c \notin Collections THEN Out("raise", d)
    ELSE IF Len(d[self_ref.c]) # self_ref.i + 1 THEN Out("raise", d)
    ELSE IF Len(d[self_ref.c]) = 0 THEN Out("raise", d)
    ELSE Out("ok", [d EXCEPT ![self_ref.c] = SubSeq(@, 1, Len(@) - 1)])

\* DoclingDocument.append_child_item
append_child_item(d, child, parent) ==
    IF Len(child.children) > 0 THEN Out("raise", d)
    ELSE LET gs == get_stack_of_item(d, parent) IN
         IF gs.st = "hang" THEN Out("hang", d)
         ELSE IF gs.st # "ok" THEN Out("raise", d)
         ELSE LET d1 == append_item(d, child, get_ref(Node(d, parent)))
                  new_ref == AppendedRef(d, child)
                  r == add_child(d1, BodyRef, gs.stack, new_ref)
              IN  IF r.st = "ok" THEN r
                  ELSE IF r.st = "raise" THEN r
                  ELSE Out("raise", pop_item(d1, new_ref).doc)

\* DoclingDocument._insert_item_at_stack
insert_item_at_stack(d, item, stack, after) ==
    LET parent_ref == get_parent_ref(d, BodyRef, stack) IN
    IF parent_ref = NoneRef \/ parent_ref = RaiseRef THEN Out("raise", d)
    ELSE LET d1 == append_item(d, item, parent_ref)
             new_ref == AppendedRef(d, item)
             r == add_sibling(d1, BodyRef, stack, new_ref, after)
         IN  IF r.st = "ok" THEN r
             ELSE IF r.st = "raise" THEN r
             ELSE Out("raise", pop_item(d1, new_ref).doc)

\* DoclingDocument._insert_item_at_refitem
insert_item_at_refitem(d, item, ref, after) ==
    LET gs == get_stack_of_refitem(d, ref) IN
    IF gs.st = "hang" THEN Out("hang", d)
    ELSE IF gs.st # "ok" THEN Out("raise", d)
    ELSE insert_item_at_stack(d, item, gs.stack, after)

\* DoclingDocument.insert_item_after_sibling
insert_item_after_sibling(d, new_item, sibling) ==
    insert_item_at_refitem(d, new_item, get_ref(Node(d, sibling)), TRUE)

\* DoclingDocument.insert_item_before_sibling
insert_item_before_sibling(d, new_item, sibling) ==
    insert_item_at_refitem(d, new_item, get_ref(Node(d, sibling)), FALSE)

\* ------------------------------------------------------------ navigation
ContentLayer == {"body", "furniture", "background", "invisible", "notes"}
DEFAULT_CONTENT_LAYERS == {"body"}
NoPage == -1

IterOpts(with_groups, traverse_pictures, page_no, layers) ==
    [with_groups |-> with_groups, traverse_pictures |-> traverse_pictures,
     page_no |-> page_no, layers |-> layers]

\* The options _delete_items, _validate_rules and _DocIndex.index iterate with
AllItemsOpts == IterOpts(TRUE, TRUE, NoPage, ContentLayer)
\* The defaults of iterate_items
DefaultOpts == IterOpts(FALSE, FALSE, NoPage, DEFAULT_CONTENT_LAYERS)

\* should_yield of _iterate_items_with_stack
should_yield(root, o) ==
    /\ (root.kind \notin GroupKinds \/ o.with_groups)
    /\ (root.kind \notin DocItemKinds
        \/ o.page_no = NoPage
        \/ \E k \in 1..Len(root.prov) : root.prov[k] = o.page_no)
    /\ root.content_layer \in o.layers

IterEntry(h, stack) == [h |-> h, stack |-> stack]

\* DoclingDocument._iterate_items_with_stack: the (item, stack) pairs in the
\* order they are yielded.  An entry with h = NoHandle ends the sequence
\* where the generator raises (a child that does not resolve, or unbounded
\* recursion through a cycle).
RECURSIVE iterate_items_with_stack(_, _, _, _, _)
RECURSIVE IterChildren(_, _, _, _, _, _)
iterate_items_with_stack(d, root, o, my_stack, fuel) ==
    IF fuel = 0 THEN <<IterEntry(NoHandle, my_stack)>>
    ELSE (IF should_yield(Node(d, root), o) THEN <<IterEntry(root, my_stack)>> ELSE <<>>)
         \o IterChildren(d, root, o, my_stack, 0, fuel)

\* The loop over root.children (lines 4104-4130), from position child_ind on
IterChildren(d, root, o, my_stack, child_ind, fuel) ==
    LET r == Node(d, root) IN
    IF child_ind >= Len(r.children) THEN <<>>
    ELSE LET child == resolve(d, r.children[child_ind + 1]) IN
         IF child = NoHandle THEN <<IterEntry(NoHandle, my_stack)>>
         ELSE IF /\ r.kind = "picture"
                 /\ ~o.traverse_pictures
                 /\ Node(d, child).self_ref \notin Range(r.captions)
         THEN IterChildren(d, root, o, my_stack, child_ind + 1, fuel)
         ELSE LET sub == iterate_items_with_stack(d, child, o,
                             Append(my_stack, child_ind), fuel - 1)
              IN  IF Len(sub) > 0 /\ sub[Len(sub)].h = NoHandle THEN sub
                  ELSE sub \o IterChildren(d, root, o, my_stack, child_ind + 1, fuel)

IterRaises(items) == Len(items) > 0 /\ items[Len(items)].h = NoHandle

\* DoclingDocument.iterate_items: (item, level) pairs
iterate_items(d, root, o) ==
    LET items == iterate_items_with_stack(d, root, o, <<>>, MaxDepth) IN
    [k \in 1..Len(items) |-> [h |-> items[k].h, level |-> Len(items[k].stack)]]

\* DoclingDocument.validate_tree: "ok" for True, "fail" for False, "raise"
\* when a reference does not resolve or a child has no parent
RECURSIVE validate_tree(_, _, _)
RECURSIVE ValidateChildren(_, _, _, _)
RECURSIVE ValidateCells(_, _, _)
\* The loop of validate_tree over the rich cells of a table
ValidateCells(d, root, k) ==
    LET r == Node(d, root) IN
    IF k > Len(r.cells) THEN "ok"
    ELSE LET cell == resolve(d, r.cells[k]) IN
         IF cell = NoHandle THEN "raise"
         ELSE LET par_ref == Node(d, cell).parent IN
              IF par_ref = NoneRef THEN "fail"
              ELSE IF resolve(d, par_ref) = NoHandle THEN "raise"
              ELSE IF Node(d, resolve(d, par_ref)) # r THEN "fail"
              ELSE ValidateCells(d, root, k + 1)

validate_tree(d, root, fuel) ==
    IF fuel = 0 THEN "raise"
    ELSE LET ch == ValidateChildren(d, root, 1, fuel)
             r == Node(d, root)
         IN  IF ch # "ok" THEN ch
             ELSE IF r.kind # "table" THEN "ok"
             ELSE ValidateCells(d, root, 1)

ValidateChildren(d, root, k, fuel) ==
    LET r == Node(d, root) IN
    IF k > Len(r.children) THEN "ok"
    ELSE LET child == resolve(d, r.children[k]) IN
         IF child = NoHandle THEN "raise"
         ELSE LET p == Node(d, child).parent IN
              IF p = NoneRef \/ resolve(d, p) = NoHandle THEN "raise"
              ELSE IF Node(d, resolve(d, p)) # r THEN "fail"
              ELSE LET sub == validate_tree(d, child, fuel - 1) IN
                   IF sub # "ok" THEN sub
                   ELSE ValidateChildren(d, root, k + 1, fuel)

\* ---------------------------------------------------------------- delete
\* Python's order on tuples of ints (sorted() of the stacks)
RECURSIVE LexLess(_, _)
LexLess(a, b) ==
    IF Len(a) = 0 THEN Len(b) > 0
    ELSE IF Len(b) = 0 THEN FALSE
    ELSE IF a[1] # b[1] THEN a[1] < b[1]
    ELSE LexLess(Tail(a), Tail(b))

DelEntry(stack, cref) == [stack |-> stack, cref |-> cref]

\* dict assignment to_be_deleted_items[tuple(stack)] = cref: the dict is the
\* list of its entries in insertion order; a key it has keeps its place
DictSet(tbd, stack, cref) ==
    IF \E k \in 1..Len(tbd) : tbd[k].stack = stack
    THEN [k \in 1..Len(tbd) |->
             IF tbd[k].stack = stack THEN DelEntry(stack, cref) ELSE tbd[k]] \o <<>>
    ELSE tbd \o <<DelEntry(stack, cref)>>

\* "Identify the to_be_deleted_items": the loop of _delete_items over the
\* traversal, from entry k on; tbd is the dict as a list of (stack, cref)
RECURSIVE IdentifyDeleted(_, _, _, _, _)
IdentifyDeleted(d, items, k, refs, tbd) ==
    IF k > Len(items) THEN tbd
    ELSE LET stack == items[k].stack
             ref == get_ref(Node(d, items[k].h))
             t1 == IF ref \in Range(refs) THEN DictSet(tbd, stack, ref) ELSE tbd
             t2 == IF \E i \in 0..(Len(stack) - 2) :
                          \E e \in Range(t1) : e.stack = SubSeq(stack, 1, i + 1)
                   THEN DictSet(t1, stack, ref) ELSE t1
         IN  IdentifyDeleted(d, items, k + 1, refs, t2)

\* "Clean the tree": _delete_child for every entry, largest stack first
\* (todo is the set of the entries still to do); an entry whose removal fails
\* is dropped from the dict
RECURSIVE CleanTree(_, _, _)
CleanTree(d, todo, tbd) ==
    IF todo = {} THEN [st |-> "ok", doc |-> d, tbd |-> tbd]
    ELSE LET e == CHOOSE x \in todo : \A y \in todo : y = x \/ LexLess(y.stack, x.stack)
             r == delete_child(d, BodyRef, e.stack)
         IN  IF r.st = "raise" THEN [st |-> "raise", doc |-> r.doc, tbd |-> tbd]
             ELSE IF r.st = "fail"
             THEN CleanTree(d, todo \ {e}, SelectSeq(tbd, LAMBDA x : x # e))
             ELSE CleanTree(r.doc, todo \ {e}, tbd)

\* The lookup of orphans: the (label, index) pairs of the removed entries
\* (dict of label to dict of index to -1)
OrphanLookup(tbd) == {e.cref : e \in {x \in Range(tbd) : x.cref.c \in Collections}}

\* The keys of the lookup in the order they were inserted: the labels of the
\* removed entries, each at its first occurrence in the dict
RECURSIVE LookupLabels(_)
LookupLabels(tbd) ==
    IF Len(tbd) = 0 THEN <<>>
    ELSE LET rest == LookupLabels(SubSeq(tbd, 1, Len(tbd) - 1))
             c == tbd[Len(tbd)].cref.c
         IN  IF c \notin Collections \/ c \in Range(rest) THEN rest
             ELSE rest \o <<c>>

\* "Remove the orphans in reverse order": del collection[index], one
\* collection after the other in the order of the lookup's keys (labels),
\* the largest index of each collection first
RECURSIVE RemoveOrphans(_, _, _)
RemoveOrphans(d, labels, lookup) ==
    IF Len(labels) = 0 THEN Out("ok", d)
    ELSE IF ~\E r \in lookup : r.c = labels[1]
    THEN RemoveOrphans(d, Tail(labels), lookup)
    ELSE LET c == labels[1]
             i == CHOOSE x \in {r.i : r \in {y \in lookup : y.c = c}} :
                      \A r \in lookup : r.c = c => r.i <= x
             h == resolve(d, Ref(c, i))
         IN  IF h = NoHandle THEN Out("raise", d)
             ELSE RemoveOrphans([d EXCEPT ![c] = RemoveAt(@, h.i + 1)], labels,
                                lookup \ {Ref(c, i)})

\* RefItem.cref carries the pattern of a JSON pointer into a collection: the
\* index is written with digits only, so RefItem(cref="#/texts/-1") is
\* rejected when it is constructed
ValidPointer(ref) == ref.i >= 0

\* DoclingDocument._update_ref_with_lookup; a result that is no ValidPointer
\* stands for the ValidationError of the RefItem constructor
update_ref_with_lookup(item_label, item_index, lookup) ==
    IF ~\E r \in lookup : r.c = item_label THEN Ref(item_label, item_index)
    ELSE LET delta == -Cardinality({r \in lookup : r.c = item_label /\ item_index >= r.i})
         IN  Ref(item_label, item_index + delta)

\* DoclingDocument._update_refitems_with_lookup
update_refitems_with_lookup(ref_items, refs_to_be_deleted, lookup) ==
    LET keep(r) == r \notin Range(refs_to_be_deleted)
        kept == SelectSeq(ref_items, keep)
    IN  [k \in 1..Len(kept) |->
            IF kept[k].c \in Collections
            THEN update_ref_with_lookup(kept[k].c, kept[k].i, lookup)
            ELSE kept[k]] \o <<>>

\* Every reference of the list could be constructed
AllValid(ref_items) == \A k \in 1..Len(ref_items) : ValidPointer(ref_items[k])

\* The outcome of rewriting one node: the node as the rewriting left it, and
\* whether a RefItem constructor raised on the way
NodeOut(st, node) == [st |-> st, node |-> node]

\* The loop over the rich cells of a table: cell.ref is assigned cell by
\* cell, so the cells before a failing one keep their new reference; a ref
\* that names no collection entry ("#/body") has no path[2] (IndexError)
RECURSIVE UpdateCells(_, _, _)
UpdateCells(cells, k, lookup) ==
    IF k > Len(cells) THEN NodeOut("ok", cells)
    ELSE IF cells[k].c \notin Collections THEN NodeOut("raise", cells)
    ELSE LET r == update_ref_with_lookup(cells[k].c, cells[k].i, lookup) IN
         IF ~ValidPointer(r) THEN NodeOut("raise", cells)
         ELSE UpdateCells([cells EXCEPT ![k] = r], k + 1, lookup)

\* The rewriting of one node by _update_breadth_first_with_lookup, in the
\* order of the code: captions (references and footnotes alike), rich cells,
\* parent, self_ref, children
UpdateNode(node, refs_to_be_deleted, lookup) ==
    LET floating == node.kind \in FloatingKinds
        caps == IF floating
                THEN update_refitems_with_lookup(node.captions, refs_to_be_deleted, lookup)
                ELSE node.captions
        n1 == [node EXCEPT !.captions = caps]
        cl == IF node.kind = "table" THEN UpdateCells(node.cells, 1, lookup)
              ELSE NodeOut("ok", node.cells)
        n2 == [n1 EXCEPT !.cells = cl.node]
        par == IF node.parent # NoneRef /\ node.parent.c \in Collections
               THEN update_ref_with_lookup(node.parent.c, node.parent.i, lookup)
               ELSE node.parent
        n3 == [n2 EXCEPT !.parent = par]
        sr == IF node.self_ref.c \in Collections
              THEN update_ref_with_lookup(node.self_ref.c, node.self_ref.i, lookup)
              ELSE node.self_ref
        n4 == [n3 EXCEPT !.self_ref = sr]
        ch == update_refitems_with_lookup(node.children, refs_to_be_deleted, lookup)
    IN  IF ~AllValid(caps) THEN NodeOut("raise", node)
        ELSE IF cl.st # "ok" THEN NodeOut("raise", n2)
        ELSE IF ~ValidPointer(par) THEN NodeOut("raise", n2)
        ELSE IF ~ValidPointer(sr) THEN NodeOut("raise", n3)
        ELSE IF ~AllValid(ch) THEN NodeOut("raise", n4)
        ELSE NodeOut("ok", [n4 EXCEPT !.children = ch])

\* DoclingDocument._update_breadth_first_with_lookup
RECURSIVE update_breadth_first_with_lookup(_, _, _, _, _)
RECURSIVE UpdateChildren(_, _, _, _, _, _)
update_breadth_first_with_lookup(d, node, refs_to_be_deleted, lookup, fuel) ==
    IF fuel = 0 THEN Out("raise", d)
    ELSE LET n == UpdateNode(Node(d, node), refs_to_be_deleted, lookup)
             d1 == SetNode(d, node, n.node)
         IN  IF n.st # "ok" THEN Out("raise", d1)
             ELSE UpdateChildren(d1, n.node.children, 1, refs_to_be_deleted, lookup, fuel)

UpdateChildren(d, children, k, refs_to_be_deleted, lookup, fuel) ==
    IF k > Len(children) THEN Out("ok", d)
    ELSE LET child == resolve(d, children[k]) IN
         IF child = NoHandle THEN Out("raise", d)
         ELSE LET r == update_breadth_first_with_lookup(d, child, refs_to_be_deleted,
                                                        lookup, fuel - 1)
              IN  IF r.st # "ok" THEN r
                  ELSE UpdateChildren(r.doc, children, k + 1, refs_to_be_deleted,
                                      lookup, fuel)

\* DoclingDocument._delete_items
delete_items_refs(d, refs) ==
    IF Len(refs) = 0 THEN Out("ok", d)
    ELSE LET items == iterate_items_with_stack(d, BodyRef, AllItemsOpts, <<>>, MaxDepth) IN
         IF IterRaises(items) THEN Out("raise", d)
         ELSE LET tbd == IdentifyDeleted(d, items, 1, refs, <<>>) IN
              IF Len(tbd) < Len(refs) THEN Out("raise", d)
              ELSE LET ct == CleanTree(d, Range(tbd), tbd) IN
                   IF ct.st # "ok" THEN Out("raise", ct.doc)
                   ELSE LET lookup == OrphanLookup(ct.tbd)
                            ro == RemoveOrphans(ct.doc, LookupLabels(ct.tbd), lookup)
                        IN  IF ro.st # "ok" THEN ro
                            ELSE update_breadth_first_with_lookup(
                                     ro.doc, BodyRef, refs, lookup, MaxDepth)

\* DoclingDocument.delete_items: node_items are object handles
delete_items(d, node_items) ==
    delete_items_refs(d, [k \in 1..Len(node_items) |-> get_ref(Node(d, node_items[k]))])

\* DoclingDocument.replace_item
replace_item(d, new_item, old_item) ==
    LET r == insert_item_after_sibling(d, new_item, old_item) IN
    IF r.st # "ok" THEN r
    ELSE delete_items(r.doc, <<old_item>>)

\* ------------------------------------------------------- add_* factories
\* The tail every add_* method shares: the item gets the next index of its
\* collection as self_ref and parent.get_ref() as parent, is appended to the
\* collection, and its reference is appended to parent.children through the
\* parent object (no path is computed)
AddUnder(d, item, parent) ==
    LET c == CollectionOf(item.kind)
        cref == Ref(c, Len(d[c]))
        d1 == [d EXCEPT ![c] = Append(@, [item EXCEPT !.self_ref = cref,
                                                      !.parent = get_ref(Node(d, parent))])]
    IN  SetNode(d1, parent, [Node(d1, parent) EXCEPT !.children = Append(@, cref)])

\* DoclingDocument.add_text for a plain TextItem label
add_text(d, uid, parent, layer, prov) ==
    AddUnder(d, NodeItem(uid, "text", NoneRef, NoneRef, layer, <<>>, prov), parent)

\* DoclingDocument.add_list_group
add_list_group(d, uid, parent) ==
    AddUnder(d, NodeItem(uid, "list_group", NoneRef, NoneRef, "body", <<>>, <<>>), parent)

\* DoclingDocument.add_group: label LIST goes to add_list_group
add_group(d, uid, isList, parent) ==
    IF isList THEN add_list_group(d, uid, parent)
    ELSE AddUnder(d, NodeItem(uid, "group", NoneRef, NoneRef, "body", <<>>, <<>>), parent)

\* DoclingDocument.add_list_item: a parent that is no ListGroup gets a new
\* ListGroup (uid) under it, which becomes the parent of the item (uid + 1)
add_list_item(d, uid, parent, layer, prov) ==
    LET synth == Node(d, parent).kind # "list_group"
        d1 == IF synth THEN add_list_group(d, uid, parent) ELSE d
        p == IF synth THEN Ref("groups", Len(d.groups)) ELSE parent
        id == IF synth THEN uid + 1 ELSE uid
    IN  AddUnder(d1, NodeItem(id, "list_item", NoneRef, NoneRef, layer, <<>>, prov), p)

\* DoclingDocument.add_picture / add_table / add_key_values / add_form:
\* caption is the handle of the caption item, NoHandle for None
add_floating(d, uid, kind, parent, caption) ==
    LET caps == IF caption = NoHandle THEN <<>> ELSE <<get_ref(Node(d, caption))>>
    IN  AddUnder(d, NodeItem(uid, kind, NoneRef, NoneRef, "body", caps, <<>>), parent)

\* DoclingDocument.add_table_cell with a RichTableCell whose ref is the
\* self_ref of item
add_table_cell(d, table_item, item) ==
    LET it == Node(d, item)
        ref == get_ref(it)
        target == resolve(d, ref)
    IN  IF target = NoHandle THEN Out("raise", d)
        ELSE IF Node(d, target).parent = NoneRef
                \/ Node(d, target).parent # get_ref(Node(d, table_item))
        THEN Out("raise", d)
        ELSE Out("ok", SetNode(d, table_item,
                       [Node(d, table_item) EXCEPT !.cells = Append(@, ref)]))

\* ---------------------------------------------------- insert_* factories
\* DoclingDocument._get_insertion_stack_and_parent
get_insertion_stack_and_parent(d, sibling) ==
    LET gs == get_stack_of_refitem(d, get_ref(Node(d, sibling))) IN
    IF gs.st = "hang" THEN [st |-> "hang", stack |-> <<>>, parent_ref |-> NoneRef]
    ELSE IF gs.st # "ok" THEN [st |-> "raise", stack |-> <<>>, parent_ref |-> NoneRef]
    ELSE LET parent_ref == get_parent_ref(d, BodyRef, gs.stack) IN
         IF parent_ref = NoneRef \/ parent_ref = RaiseRef
         THEN [st |-> "raise", stack |-> <<>>, parent_ref |-> NoneRef]
         ELSE [st |-> "ok", stack |-> gs.stack, parent_ref |-> parent_ref]

\* DoclingDocument._insert_in_structure (item.parent is set by every caller)
insert_in_structure(d, item, stack, after, created_parent) ==
    LET d1 == append_item(d, item, item.parent)
        new_ref == AppendedRef(d, item)
        r == add_sibling(d1, BodyRef, stack, new_ref, after)
    IN  IF r.st = "ok" THEN r
        ELSE IF r.st = "raise" THEN r
        ELSE LET d2 == pop_item(d1, new_ref).doc IN
             IF created_parent /\ resolve(d2, item.parent) # NoHandle
             THEN Out("raise", delete_items(d2, <<resolve(d2, item.parent)>>).doc)
             ELSE Out("raise", d2)

\* DoclingDocument.insert_text (plain label), insert_group, insert_list_group,
\* insert_table, insert_picture, insert_key_values, insert_form: a new item of
\* `kind` next to sibling
insert_item(d, uid, kind, sibling, after) ==
    LET sp == get_insertion_stack_and_parent(d, sibling) IN
    IF sp.st # "ok" THEN Out(sp.st, d)
    ELSE insert_in_structure(d,
             NodeItem(uid, kind, Ref("#", 0), sp.parent_ref, "body", <<>>, <<>>),
             sp.stack, after, FALSE)

\* DoclingDocument.insert_list_item: next to a sibling whose parent is no
\* ListGroup, a new ListGroup (uid) is inserted and the item (uid + 1) becomes
\* its first child
insert_list_item(d, uid, sibling, after) ==
    LET sp == get_insertion_stack_and_parent(d, sibling) IN
    IF sp.st # "ok" THEN Out(sp.st, d)
    ELSE LET parent == resolve(d, sp.parent_ref) IN
         IF parent = NoHandle THEN Out("raise", d)
         ELSE IF Node(d, parent).kind = "list_group"
         THEN insert_in_structure(d,
                  NodeItem(uid, "list_item", Ref("#", 0), sp.parent_ref, "body", <<>>, <<>>),
                  sp.stack, after, FALSE)
         ELSE LET g == insert_item(d, uid, "list_group", sibling, after) IN
              IF g.st # "ok" THEN g
              ELSE LET n == Len(sp.stack)
                       st1 == IF after THEN [sp.stack EXCEPT ![n] = @ + 1] ELSE sp.stack
                   IN  insert_in_structure(g.doc,
                           NodeItem(uid + 1, "list_item", Ref("#", 0),
                                    Ref("groups", Len(d.groups)), "body", <<>>, <<>>),
                           Append(st1, 0), FALSE, TRUE)

\* ------------------------------------------------------------ the machine
\* A NodeItem a caller constructs before handing it to append_child_item,
\* insert_item_*_sibling or replace_item
NewItem(uid, kind, children) ==
    [NodeItem(uid, kind, Ref("#", 0), NoneRef, "body", <<>>, <<>>)
        EXCEPT !.children = children]

\* Kinds of the items callers construct themselves
NewKinds == {"text", "list_item", "group", "list_group"}

\* Lists of handles of length 1..MaxRefs
HandleSeqs(d) == UNION {[1..n -> Handles(d)] : n \in 1..MaxRefs}

\* TableData(num_rows=num_rows, num_cols=num_cols): a table without cells;
\* TableData() has num_rows 0 and num_cols 0
TableData(num_rows, num_cols) ==
    [table_cells |-> <<>>, num_rows |-> num_rows, num_cols |-> num_cols]

\* No call is in progress
NoPending == [at |-> "idle"]

NoCall == [op |-> "init", raised |-> FALSE, args |-> <<>>, flag |-> FALSE, pre |-> EmptyDoc]

Init ==
    /\ doc = EmptyDoc
    /\ nextUid = 1
    /\ last = NoCall
    /\ shelf = <<>>
    /\ table = TableData(0, 0)
    /\ pending = NoPending

\* One public call: op with argument handles args (and a boolean argument
\* flag) ran on the document and ended with outcome r, having constructed
\* `used` new nodes.  A call that does not return is no step: its caller
\* never goes on.
Call(op, args, flag, r, used) ==
    /\ last = NoCall
    /\ r.st # "hang"
    /\ doc' = r.doc
    /\ nextUid' = IF r.doc = doc THEN nextUid ELSE nextUid + used
    /\ last' = [op |-> op, raised |-> r.st # "ok", args |-> args, flag |-> flag, pre |-> doc]
    /\ UNCHANGED <<shelf, table, pending>>

Room(n) == nextUid + n - 1 <= MaxNodes

AddText ==
    \E parent \in Handles(doc), layer \in {"body", "furniture"} :
        /\ Room(1)
        /\ Call("add_text", <<parent>>, FALSE,
                Out("ok", add_text(doc, nextUid, parent, layer, <<>>)), 1)

AddListItem ==
    \E parent \in Handles(doc) :
        LET need == IF Node(doc, parent).kind = "list_group" THEN 1 ELSE 2 IN
        /\ Room(need)
        /\ Call("add_list_item", <<parent>>, FALSE,
                Out("ok", add_list_item(doc, nextUid, parent, "body", <<>>)), need)

AddGroup ==
    \E parent \in Handles(doc), isList \in BOOLEAN :
        /\ Room(1)
        /\ Call("add_group", <<parent>>, isList,
                Out("ok", add_group(doc, nextUid, isList, parent)), 1)

AddFloating ==
    \E kind \in FloatingKinds, parent \in Handles(doc),
       caption \in {NoHandle} \cup {Ref("texts", i) : i \in 0..(Len(doc.texts) - 1)} :
        /\ Room(1)
        /\ kind \in {"key_value", "form"} => caption = NoHandle /\ parent = BodyRef
        /\ Call("add_" \o kind, <<parent, caption>>, FALSE,
                Out("ok", add_floating(doc, nextUid, kind, parent, caption)), 1)

AddTableCell ==
    \E t \in 0..(Len(doc.tables) - 1), item \in Handles(doc) :
        /\ Len(doc.tables[t + 1].cells) = 0
        /\ Call("add_table_cell", <<Ref("tables", t), item>>, FALSE,
                add_table_cell(doc, Ref("tables", t), item), 0)

AppendChildItem ==
    \E kind \in NewKinds, parent \in Handles(doc), hasChildren \in BOOLEAN :
        /\ Room(1)
        /\ Call("append_child_item", <<parent>>, hasChildren,
                append_child_item(doc,
                    NewItem(nextUid, kind, IF hasChildren THEN <<Ref("texts", 0)>> ELSE <<>>),
                    parent), 1)

InsertItemSibling ==
    \E kind \in NewKinds, sibling \in Handles(doc), after \in BOOLEAN :
        /\ Room(1)
        /\ Call("insert_item_sibling", <<sibling>>, after,
                insert_item_at_refitem(doc, NewItem(nextUid, kind, <<>>),
                                       get_ref(Node(doc, sibling)), after), 1)

InsertItem ==
    \E kind \in {"text", "group", "picture", "table", "key_value", "form"},
       sibling \in Handles(doc), after \in BOOLEAN :
        /\ Room(1)
        /\ Call(IF kind = "key_value" THEN "insert_key_values" ELSE "insert_" \o kind,
                <<sibling>>, after,
                insert_item(doc, nextUid, kind, sibling, after), 1)

InsertListItem ==
    \E sibling \in Handles(doc), after \in BOOLEAN :
        LET sp == get_insertion_stack_and_parent(doc, sibling)
            need == IF /\ sp.st = "ok"
                       /\ resolve(doc, sp.parent_ref) # NoHandle
                       /\ Node(doc, resolve(doc, sp.parent_ref)).kind = "list_group"
                    THEN 1 ELSE 2
        IN  /\ Room(need)
            /\ Call("insert_list_item", <<sibling>>, after,
                    insert_list_item(doc, nextUid, sibling, after), need)

DeleteItems ==
    \E node_items \in HandleSeqs(doc) :
        Call("delete_items", node_items, FALSE, delete_items(doc, node_items), 0)

ReplaceItem ==
    \E kind \in NewKinds, old_item \in Handles(doc) :
        /\ Room(1)
        /\ Call("replace_item", <<old_item>>, FALSE,
                replace_item(doc, NewItem(nextUid, kind, <<>>), old_item), 1)

\* The call has returned and its outcome has been observed: the document is
\* ready for the next call
Return ==
    /\ last # NoCall
    /\ last' = NoCall
    /\ UNCHANGED <<doc, nextUid, shelf, table, pending>>

Next ==
    \/ Return
    \/ AddText
    \/ AddListItem
    \/ AddGroup
    \/ AddFloating
    \/ AddTableCell
    \/ AppendChildItem
    \/ InsertItemSibling
    \/ InsertItem
    \/ InsertListItem
    \/ DeleteItems
    \/ ReplaceItem

Spec == Init /\ [][Next]_vars

\* ------------------------------------- the machine after a failed delete
\* A delete_items that raises in its update walk has already cut the
\* collections and body.children; the nodes the walk did not reach keep the
\* self_ref and children they had.  The callers below caught that exception
\* and go on with the document.

\* T = add_table(TableData()); x = add_text(parent=T); y = add_text(parent=T);
\* add_table_cell(T, RichTableCell(ref=x)); delete_items([x]) raises at the
\* rich cell of T; fa = add_group(parent=furniture); fb = add_group(parent=fa)
TornTable ==
    LET T == Ref("tables", 0)
        x == Ref("texts", 0)
        fa == Ref("groups", 0)
        d1 == add_floating(EmptyDoc, MaxNodes + 1, "table", BodyRef, NoHandle)
        d2 == add_text(d1, MaxNodes + 2, T, "body", <<>>)
        d3 == add_text(d2, MaxNodes + 3, T, "body", <<>>)
        d4 == add_table_cell(d3, T, x).doc
        d5 == delete_items(d4, <<x>>).doc
        d6 == add_group(d5, MaxNodes + 4, FALSE, FurnitureRef)
    IN  add_group(d6, MaxNodes + 5, FALSE, fa)

\* p1 = add_picture(); c = add_text(parent=p1); p2 = add_picture(caption=c);
\* p3 = add_picture(); p4 = add_picture(); delete_items([p1]) raises at the
\* caption of p2
TornPictures ==
    LET p1 == Ref("pictures", 0)
        c == Ref("texts", 0)
        d1 == add_floating(EmptyDoc, MaxNodes + 1, "picture", BodyRef, NoHandle)
        d2 == add_text(d1, MaxNodes + 2, p1, "body", <<>>)
        d3 == add_floating(d2, MaxNodes + 3, "picture", BodyRef, c)
        d4 == add_floating(d3, MaxNodes + 4, "picture", BodyRef, NoHandle)
        d5 == add_floating(d4, MaxNodes + 5, "picture", BodyRef, NoHandle)
    IN  delete_items(d5, <<p1>>).doc

TornDocs == {TornTable, TornPictures}

InitTorn ==
    /\ doc \in TornDocs
    /\ nextUid = 1
    /\ last = NoCall
    /\ shelf = <<>>
    /\ table = TableData(0, 0)
    /\ pending = NoPending

NextTorn ==
    \/ Return
    \/ AppendChildItem
    \/ InsertItemSibling
    \/ InsertItem
    \/ ReplaceItem

SpecTorn == InitTorn /\ [][NextTorn]_vars

\* ------------------------------------------------- the traversal machine
\* Documents are built with the add_* factories, with content layers and
\* provenance pages chosen by the caller.  The calls change the document
\* whether or not a generator of iterate_items is suspended meanwhile.

\* The provenance lists (page numbers) items are created with
ProvChoices == {<<>>, <<1>>, <<2>>}

\* The content layer and provenance the texts of a traversed document are
\* created with
TextChoices ==
    {[layer |-> "body", prov |-> <<>>], [layer |-> "furniture", prov |-> <<>>],
     [layer |-> "body", prov |-> <<1>>]}

\* The arguments iterate_items is called with on documents of texts and
\* groups
IterArgs ==
    {DefaultOpts, AllItemsOpts,
     IterOpts(TRUE, FALSE, 1, ContentLayer),
     IterOpts(FALSE, FALSE, 1, DEFAULT_CONTENT_LAYERS)}

\* The arguments iterate_items is called with on documents with pictures
PictureArgs == {DefaultOpts, AllItemsOpts, IterOpts(TRUE, FALSE, NoPage, ContentLayer)}

\* A generator that is suspended while the caller changes the document is
\* resumed on the changed document; pre, the document the generator was
\* created on, is kept only as long as it is the document
Disturbed(p) ==
    IF p.at = "iter" THEN [p EXCEPT !.undisturbed = FALSE, !.pre = EmptyDoc] ELSE p

\* A document is changed by a factory call whose outcome is not looked at
Build(d) ==
    /\ last = NoCall
    /\ doc' = d
    /\ nextUid' = nextUid + 1
    /\ pending' = Disturbed(pending)
    /\ UNCHANGED <<last, shelf, table>>

BuildText ==
    \E parent \in Handles(doc), t \in TextChoices :
        /\ Room(1)
        /\ Build(add_text(doc, nextUid, parent, t.layer, t.prov))

BuildGroup ==
    \E parent \in Handles(doc) :
        /\ Room(1)
        /\ Build(add_group(doc, nextUid, FALSE, parent))

BuildPicture ==
    \E parent \in Handles(doc) :
        /\ Room(1)
        /\ Build(add_floating(doc, nextUid, "picture", parent, NoHandle))

\* picture.captions.append(item.get_ref()) by the caller that holds both
CaptionChild ==
    \E p \in 0..(Len(doc.pictures) - 1), c \in 0..(Len(doc.texts) - 1) :
        /\ last = NoCall
        /\ doc.pictures[p + 1].captions = <<>>
        /\ doc' = [doc EXCEPT !.pictures[p + 1].captions = <<doc.texts[c + 1].self_ref>>]
        /\ pending' = Disturbed(pending)
        /\ UNCHANGED <<nextUid, last, shelf, table>>

\* ------------------------------------------------------------ concatenate
\* DoclingDocument._DocIndex(): the merge buffer before any document went in
\* (has_body is FALSE while _body is None)
DocIndex ==
    [body |-> EmptyDoc.body, has_body |-> FALSE,
     groups |-> <<>>, texts |-> <<>>, pictures |-> <<>>, tables |-> <<>>,
     key_value_items |-> <<>>, form_items |-> <<>>, pages |-> {}, max_page |-> 0]

\* Outcome of a step of _DocIndex.index: the buffer and orig_ref_to_new_ref
IndexOut(st, ix, map) == [st |-> st, ix |-> ix, map |-> map]

\* orig_ref_to_new_ref, a dict, as a set of (from, to) pairs
MapSet(map, from, to) == {e \in map : e.from # from} \cup {[from |-> from, to |-> to]}
MapHas(map, from) == \E e \in map : e.from = from
MapGet(map, from) == (CHOOSE e \in map : e.from = from).to

\* min(doc.pages.keys()) and the maximum of the renumbered pages
MinOf(S) == CHOOSE x \in S : \A y \in S : x <= y
MaxOf(S) == CHOOSE x \in S : \A y \in S : x >= y

\* The first occurrence of old in a list of references becomes new (the
\* loops with break over captions and over rich table cells)
ReplaceFirst(refs, old, new) ==
    LET k == IndexOf(refs, old) IN
    IF k < 0 THEN refs ELSE [refs EXCEPT ![k + 1] = new]

\* The body of the loop of _DocIndex.index for the item at handle h of d
IndexItem(ix, map, d, h, page_delta) ==
    LET item == Node(d, h)
        key == item.self_ref.c
        is_body == key = "body"
    IN  IF ~is_body /\ key \notin Collections THEN IndexOut("raise", ix, map)
        ELSE
        LET new_cref == IF is_body THEN BodyRef ELSE Ref(key, Len(ix[key]))
            map1 == MapSet(map, item.self_ref, new_cref)
        IN  IF is_body THEN IndexOut("ok", ix, map1)
            ELSE
            LET new_item == [item EXCEPT
                               !.children = <<>>,
                               !.self_ref = new_cref,
                               !.prov = IF item.kind \in DocItemKinds
                                        THEN [k \in 1..Len(@) |-> @[k] + page_delta] \o <<>>
                                        ELSE @]
                ix1 == [ix EXCEPT ![key] = Append(@, new_item)]
            IN  IF item.parent = NoneRef THEN IndexOut("ok", ix1, map1)
                ELSE IF ~MapHas(map1, item.parent) THEN IndexOut("raise", ix1, map1)
                ELSE
                LET new_parent_cref == MapGet(map1, item.parent)
                    ix2 == [ix1 EXCEPT ![key][new_cref.i + 1].parent = new_parent_cref]
                IN  IF new_parent_cref.c \in Collections
                    THEN LET pc == new_parent_cref.c
                             pi == new_parent_cref.i + 1
                             parent_item == ix2[pc][pi]
                             caps == IF parent_item.kind \in FloatingKinds
                                     THEN ReplaceFirst(parent_item.captions,
                                                       item.self_ref, new_cref)
                                     ELSE parent_item.captions
                             cells == IF parent_item.kind = "table"
                                      THEN ReplaceFirst(parent_item.cells,
                                                        item.self_ref, new_cref)
                                      ELSE parent_item.cells
                         IN  IndexOut("ok",
                                 [ix2 EXCEPT ![pc][pi] =
                                     [parent_item EXCEPT
                                         !.captions = caps,
                                         !.cells = cells,
                                         !.children = Append(@, new_cref)]],
                                 map1)
                    ELSE IF new_parent_cref = BodyRef
                    THEN IndexOut("ok",
                             [ix2 EXCEPT !.body.children = Append(@, new_cref)], map1)
                    ELSE IndexOut("raise", ix2, map1)

\* The loop of _DocIndex.index over doc.iterate_items(with_groups=True,
\* traverse_pictures=True, all content layers), from its k-th item on
RECURSIVE IndexItems(_, _, _, _, _, _)
\* The loop after the body has run for the k-th item with outcome r
IndexItemsAfter(r, d, items, k, page_delta) ==
    IF r.st # "ok" THEN r
    ELSE IndexItems(r.ix, r.map, d, items, k + 1, page_delta)

IndexItems(ix, map, d, items, k, page_delta) ==
    IF k > Len(items) THEN IndexOut("ok", ix, map)
    ELSE IF items[k].h = NoHandle THEN IndexOut("raise", ix, map)
    ELSE IndexItemsAfter(IndexItem(ix, map, d, items[k].h, page_delta),
                         d, items, k, page_delta)

\* page_delta of _DocIndex.index
PageDelta(ix, d) ==
    IF d.pages # {} THEN ix.max_page - MinOf(d.pages) + 1 ELSE 0

\* The end of _DocIndex.index, after the loop over the items of d ended with
\* outcome r: the pages of d go into the buffer, renumbered
IndexPages(r, d, page_delta) ==
    IF r.st # "ok" THEN r
    ELSE IF d.pages = {} THEN r
    ELSE LET new_pages == {page_nr + page_delta : page_nr \in d.pages} IN
         IndexOut("ok", [r.ix EXCEPT !.pages = @ \cup new_pages,
                                     !.max_page = MaxOf(new_pages)], r.map)

\* DoclingDocument._DocIndex.index
index(ix, d) ==
    IndexPages(
        IndexItems(IF ix.has_body THEN ix
                   ELSE [ix EXCEPT !.body = [d.body EXCEPT !.children = <<>>],
                                   !.has_body = TRUE],
                   {}, d,
                   iterate_items_with_stack(d, BodyRef, AllItemsOpts, <<>>, MaxDepth),
                   1, PageDelta(ix, d)),
        d, PageDelta(ix, d))

\* The loop of concatenate over docs, from the k-th document on
RECURSIVE IndexDocs(_, _, _)
\* The loop after the k-th document went in with outcome r
IndexDocsAfter(r, docs, k) ==
    IF r.st # "ok" THEN r ELSE IndexDocs(r.ix, docs, k + 1)

IndexDocs(ix, docs, k) ==
    IF k > Len(docs) THEN IndexOut("ok", ix, {})
    ELSE IndexDocsAfter(index(ix, docs[k]), docs, k)

\* DoclingDocument._update_from_index on a new DoclingDocument
update_from_index(d, doc_index) ==
    [d EXCEPT !.body = IF doc_index.has_body THEN doc_index.body ELSE @,
              !.groups = doc_index.groups,
              !.texts = doc_index.texts,
              !.pictures = doc_index.pictures,
              !.tables = doc_index.tables,
              !.key_value_items = doc_index.key_value_items,
              !.form_items = doc_index.form_items,
              !.pages = doc_index.pages]

\* The end of concatenate, after the loop over docs ended with outcome r
FromIndex(r) ==
    IF r.st # "ok" THEN Out("raise", EmptyDoc)
    ELSE Out("ok", update_from_index(EmptyDoc, r.ix))

\* DoclingDocument.concatenate
concatenate(docs) == FromIndex(IndexDocs(DocIndex, docs, 1))

\* ------------------------------------------------ the concatenation machine
\* A caller builds documents one after the other with the factories and
\* add_page, keeps them in a list and concatenates the list.

\* Where the caller of the factories hangs new items: body or an item
Parents(d) == Handles(d) \ {FurnitureRef}

\* doc.add_text(label, text, prov=..., parent=...)
WriteText ==
    \E parent \in Parents(doc), prov \in ProvChoices :
        /\ Room(1)
        /\ Build(add_text(doc, nextUid, parent, "body", prov))

\* doc.add_picture(caption=..., parent=...)
WritePicture ==
    \E parent \in Parents(doc),
       caption \in {NoHandle} \cup {Ref("texts", i) : i \in 0..(Len(doc.texts) - 1)} :
        /\ Room(1)
        /\ Build(add_floating(doc, nextUid, "picture", parent, caption))

\* doc.add_page(page_no, size)
AddPage ==
    \E page_no \in 1..MaxPage :
        /\ last = NoCall
        /\ page_no \notin doc.pages
        /\ doc' = [doc EXCEPT !.pages = @ \cup {page_no}]
        /\ UNCHANGED <<nextUid, last, shelf, table, pending>>

\* docs.append(doc); doc = DoclingDocument(name=...)
NextDocument ==
    /\ last = NoCall
    /\ Len(shelf) + 1 < MaxDocs
    /\ shelf' = Append(shelf, doc)
    /\ doc' = EmptyDoc
    /\ UNCHANGED <<nextUid, last, table, pending>>

\* What the caller has after concatenate ended with outcome r
Concatenated(r) ==
    [op |-> "concatenate", raised |-> r.st # "ok", args |-> <<>>,
     flag |-> FALSE, pre |-> EmptyDoc, out |-> r.doc]

\* DoclingDocument.concatenate(docs + [doc])
Concatenate ==
    /\ last = NoCall
    /\ last' = Concatenated(concatenate(Append(shelf, doc)))
    /\ UNCHANGED <<doc, nextUid, shelf, table, pending>>

NextConcat ==
    \/ Return
    \/ WriteText
    \/ WritePicture
    \/ AddPage
    \/ NextDocument
    \/ Concatenate

SpecConcat == Init /\ [][NextConcat]_vars

\* ------------------------------------------- ranges and document splicing
\* Outcome of _append_item_copies: the target document and the new references
CopiesOut(st, d, refs) == [st |-> st, doc |-> d, refs |-> refs]

\* DoclingDocument._append_item_copies: the items at handles node_items of
\* document src, from the k-th on, are copied with their subtrees to the end
\* of the collections of target.  A copy keeps every field of the item except
\* self_ref, parent and children.  The children of an item are all resolved
\* in src before the first of them is copied.
RECURSIVE append_item_copies(_, _, _, _, _, _)
\* new_refs once the items after the k-th were copied with outcome rest:
\* the reference of the k-th copy comes first
CopiesJoined(new_ref, rest) ==
    IF rest.st # "ok" THEN rest
    ELSE CopiesOut("ok", rest.doc, <<new_ref>> \o rest.refs)

\* The loop after the children of the k-th item were copied with outcome
\* sub: they become item_copy.children, and the loop goes on
CopiesAfterChildren(sub, src, node_items, k, parent_ref, new_ref, fuel) ==
    IF sub.st # "ok" THEN sub
    ELSE CopiesJoined(new_ref,
             append_item_copies(
                 SetNode(sub.doc, new_ref,
                         [Node(sub.doc, new_ref) EXCEPT !.children = sub.refs]),
                 src, node_items, k + 1, parent_ref, fuel))

append_item_copies(target, src, node_items, k, parent_ref, fuel) ==
    IF k > Len(node_items) THEN CopiesOut("ok", target, <<>>)
    ELSE IF fuel = 0 \/ node_items[k] = NoHandle THEN CopiesOut("raise", target, <<>>)
    ELSE
    LET item_copy == Node(src, node_items[k])
        t1 == append_item(target, item_copy, parent_ref)
        new_ref == AppendedRef(target, item_copy)
    IN  CopiesAfterChildren(
            IF Len(item_copy.children) = 0 THEN CopiesOut("ok", t1, <<>>)
            ELSE IF \E n \in 1..Len(item_copy.children) :
                       resolve(src, item_copy.children[n]) = NoHandle
            THEN CopiesOut("raise", t1, <<>>)
            ELSE append_item_copies(t1, src,
                     [n \in 1..Len(item_copy.children) |->
                         resolve(src, item_copy.children[n])],
                     1, new_ref, fuel - 1),
            src, node_items, k, parent_ref, new_ref, fuel)

\* The end of add_node_items, after _append_item_copies ended with outcome
\* r: parent.children.extend(new_refs)
ExtendChildren(r, parent) ==
    IF r.st # "ok" THEN Out("raise", r.doc)
    ELSE Out("ok", SetNode(r.doc, parent,
             [Node(r.doc, parent) EXCEPT !.children = @ \o r.refs]))

\* DoclingDocument.add_node_items: node_items are handles of document src,
\* parent is a handle of target (body when the caller passes None)
add_node_items(target, node_items, src, parent) ==
    IF /\ Node(target, parent).kind # "list_group"
       /\ \E k \in 1..Len(node_items) :
             node_items[k] # NoHandle /\ Node(src, node_items[k]).kind = "list_item"
    THEN Out("raise", target)
    ELSE ExtendChildren(append_item_copies(target, src, node_items, 1,
                                           get_ref(Node(target, parent)), MaxDepth),
                        parent)

\* DoclingDocument.add_document
add_document(target, src, parent) ==
    LET node_items == [n \in 1..Len(src.body.children) |->
                          resolve(src, src.body.children[n])]
    IN  IF \E n \in 1..Len(node_items) : node_items[n] = NoHandle
        THEN Out("raise", target)
        ELSE add_node_items(target, node_items, src, parent)

\* The parent, the positions and the checks that delete_items_range and
\* extract_items_range share: "ok" with the parent handle and the 0-based
\* indices of start and end among its children, or "raise"
RangeOut(st, parent, start_index, end_index) ==
    [st |-> st, parent |-> parent, start_index |-> start_index, end_index |-> end_index]

RangeOf(d, start, end) ==
    LET s == Node(d, start)
        e == Node(d, end)
        start_parent_ref == IF s.parent # NoneRef THEN s.parent ELSE get_ref(d.body)
        end_parent_ref == IF e.parent # NoneRef THEN e.parent ELSE get_ref(d.body)
        start_parent == resolve(d, start_parent_ref)
        end_parent == resolve(d, end_parent_ref)
    IN  IF s.parent # e.parent THEN RangeOut("raise", NoHandle, 0, 0)
        ELSE IF start_parent = NoHandle \/ end_parent = NoHandle
        THEN RangeOut("raise", NoHandle, 0, 0)
        ELSE LET start_index == IndexOf(Node(d, start_parent).children, get_ref(s))
                 end_index == IndexOf(Node(d, end_parent).children, get_ref(e))
             IN  IF start_index < 0 \/ end_index < 0
                 THEN RangeOut("raise", NoHandle, 0, 0)
                 ELSE RangeOut("ok", start_parent, start_index, end_index)

\* children[from:to] of a Python list (0-based, to exclusive)
Slice(children, from, to) ==
    IF to > Len(children)
    THEN SubSeq(children, from + 1, Len(children))
    ELSE SubSeq(children, from + 1, to)

\* DoclingDocument.delete_items_range
delete_items_range(d, start, end, start_inclusive, end_inclusive) ==
    LET rg == RangeOf(d, start, end) IN
    IF rg.st # "ok" THEN Out("raise", d)
    ELSE IF rg.start_index > rg.end_index THEN Out("raise", d)
    ELSE LET all == Slice(Node(d, rg.parent).children, rg.start_index, rg.end_index + 1)
             tail == IF start_inclusive THEN all ELSE Slice(all, 1, Len(all))
             to_delete == IF end_inclusive THEN tail ELSE Slice(tail, 0, Len(tail) - 1)
         IN  delete_items_refs(d, to_delete)

\* Outcome of extract_items_range: the document it was called on and the
\* document it returns
ExtractOut(st, d, new_doc) == [st |-> st, doc |-> d, new_doc |-> new_doc]

\* extract_items_range returns new_doc after delete_items_range ended with
\* outcome del
ExtractDeleted(del, new_doc) == ExtractOut(del.st, del.doc, new_doc)

\* The end of extract_items_range, after add_node_items ended with outcome
\* added: the originals are deleted if delete is set
ExtractAdded(added, d, start, end, start_inclusive, end_inclusive, delete) ==
    IF added.st # "ok" THEN ExtractOut("raise", d, EmptyDoc)
    ELSE IF ~delete THEN ExtractOut("ok", d, added.doc)
    ELSE ExtractDeleted(delete_items_range(d, start, end, start_inclusive, end_inclusive),
                        added.doc)

\* DoclingDocument.extract_items_range
extract_items_range(d, start, end, start_inclusive, end_inclusive, delete) ==
    LET rg == RangeOf(d, start, end) IN
    IF rg.st # "ok" THEN ExtractOut("raise", d, EmptyDoc)
    ELSE
    LET start_index == rg.start_index + (IF start_inclusive THEN 0 ELSE 1)
        end_index == rg.end_index + (IF end_inclusive THEN 1 ELSE 0)
    IN  IF start_index > end_index THEN ExtractOut("raise", d, EmptyDoc)
        ELSE
        LET ref_items == Slice(Node(d, rg.parent).children, start_index, end_index)
            node_items == [n \in 1..Len(ref_items) |-> resolve(d, ref_items[n])]
        IN  IF \E n \in 1..Len(node_items) : node_items[n] = NoHandle
            THEN ExtractOut("raise", d, EmptyDoc)
            ELSE ExtractAdded(add_node_items(EmptyDoc, node_items, d, BodyRef),
                              d, start, end, start_inclusive, end_inclusive, delete)

\* ------------------------------------------------------ the range machine
\* A caller builds a document, takes a range of siblings out of it as a new
\* document, and may add the document it got back to the one it came from.

\* The items a caller can name as sibling, start or end: all but the roots
Items(d) == Handles(d) \ {BodyRef, FurnitureRef}

\* doc.add_text(label, text, parent=...)
PlainText ==
    \E parent \in Parents(doc) :
        /\ Room(1)
        /\ Build(add_text(doc, nextUid, parent, "body", <<>>))

\* doc.insert_text(sibling, label, text, after=...)
InsertText ==
    \E sibling \in Items(doc), after \in BOOLEAN :
        /\ Room(1)
        /\ LET r == insert_item(doc, nextUid, "text", sibling, after) IN
           r.st = "ok" /\ Build(r.doc)

\* What the caller has after extract_items_range ended with outcome r
Extracted(r, start, end, start_inclusive, end_inclusive, delete) ==
    /\ doc' = r.doc
    /\ last' = [op |-> "extract_items_range", raised |-> r.st # "ok",
                args |-> <<start, end>>, flag |-> delete, pre |-> doc,
                inclusive |-> <<start_inclusive, end_inclusive>>,
                out |-> r.new_doc]

\* new_doc = doc.extract_items_range(start=, end=, start_inclusive=,
\* end_inclusive=, delete=)
ExtractItemsRange ==
    \E start \in Items(doc), end \in Items(doc),
       start_inclusive \in BOOLEAN, end_inclusive \in BOOLEAN, delete \in BOOLEAN :
        /\ last = NoCall
        /\ Extracted(extract_items_range(doc, start, end,
                                         start_inclusive, end_inclusive, delete),
                     start, end, start_inclusive, end_inclusive, delete)
        /\ UNCHANGED <<nextUid, shelf, table, pending>>

\* What the caller has after add_document ended with outcome r
DocumentAdded(r) ==
    /\ doc' = r.doc
    /\ last' = [op |-> "add_document", raised |-> r.st # "ok", args |-> <<>>,
                flag |-> FALSE, pre |-> doc, extraction |-> last]

\* doc.add_document(new_doc) with the document the extraction just returned
AddDocument ==
    /\ last.op = "extract_items_range"
    /\ ~last.raised
    /\ Cardinality(Items(doc)) + Cardinality(Items(last.out)) <= MaxNodes
    /\ DocumentAdded(add_document(doc, last.out, BodyRef))
    /\ UNCHANGED <<nextUid, shelf, table, pending>>

NextRange ==
    \/ Return
    \/ PlainText
    \/ InsertText
    \/ WritePicture
    \/ CaptionChild
    \/ ExtractItemsRange
    \/ AddDocument

SpecRange == Init /\ [][NextRange]_vars

\* ------------------------------------------- validate_misplaced_list_items
\* The node with content uid, wherever the document stores it now; NoHandle
\* when the document stores none.  It is the Python object the caller holds
\* as long as no healing pass has added a copy of it.
Locate(d, uid) ==
    LET found == {h \in Handles(d) \ {BodyRef, FurnitureRef} : Node(d, h).uid = uid} IN
    IF found = {} THEN NoHandle ELSE CHOOSE h \in found : TRUE

\* What the pass keeps of a misplaced ListItem: the Python object, named by
\* the handle h the document stores it at (NoHandle once the document has
\* dropped it) and the self_ref it holds, and the fields the pass hands to
\* add_list_item (uid stands for the text)
Misplaced(h, item) ==
    [uid |-> item.uid, h |-> h, self_ref |-> item.self_ref,
     content_layer |-> item.content_layer,
     prov |-> IF Len(item.prov) > 0 THEN <<item.prov[1]>> ELSE <<>>]

MisplacedOut(st, lists) == [st |-> st, lists |-> lists]

\* The first loop of validate_misplaced_list_items over the (item, level)
\* pairs of iterate_items: the list items without a ListGroup parent, each
\* one continuing the last list when the item yielded before it is a
\* ListItem whose parent is body, and starting a new list otherwise
RECURSIVE misplaced_list_items(_, _, _, _, _)
misplaced_list_items(d, items, k, prev, lists) ==
    IF k > Len(items) THEN MisplacedOut("ok", lists)
    ELSE
    LET item == Node(d, items[k].h)
        parent == resolve(d, item.parent)
    IN  IF item.kind # "list_item"
        THEN misplaced_list_items(d, items, k + 1, items[k].h, lists)
        ELSE IF item.parent # NoneRef /\ parent = NoHandle THEN MisplacedOut("raise", lists)
        ELSE IF item.parent # NoneRef /\ Node(d, parent).kind = "list_group"
        THEN misplaced_list_items(d, items, k + 1, items[k].h, lists)
        ELSE
        LET p == IF prev = NoHandle THEN d.body ELSE Node(d, prev)
            prev_parent == resolve(d, p.parent)
        IN  IF prev # NoHandle /\ p.kind = "list_item"
               /\ p.parent # NoneRef /\ prev_parent = NoHandle
            THEN MisplacedOut("raise", lists)
            ELSE IF prev # NoHandle /\ p.kind = "list_item"
                    /\ (p.parent = NoneRef \/ prev_parent = BodyRef)
            THEN misplaced_list_items(d, items, k + 1, items[k].h,
                     [lists EXCEPT ![Len(lists)] = Append(@, Misplaced(items[k].h, item))])
            ELSE misplaced_list_items(d, items, k + 1, items[k].h,
                     Append(lists, <<Misplaced(items[k].h, item)>>))

\* The lookup of a _delete_items(refs) that returns on d: the places of the
\* collections it empties
deleted_lookup(d, refs) ==
    IF Len(refs) = 0 THEN {}
    ELSE OrphanLookup(
             CleanTree(d,
                 Range(IdentifyDeleted(d,
                     iterate_items_with_stack(d, BodyRef, AllItemsOpts, <<>>, MaxDepth),
                     1, refs, <<>>)),
                 IdentifyDeleted(d,
                     iterate_items_with_stack(d, BodyRef, AllItemsOpts, <<>>, MaxDepth),
                     1, refs, <<>>)).tbd)

\* A Python object the pass holds, after a _delete_items with this lookup
\* has left document d: an object stored at a place of the lookup is
\* dropped and keeps the self_ref it had; any other has moved down by the
\* places emptied before it and holds the self_ref the document gives it
Moved(obj, lookup, d) ==
    IF obj.h = NoHandle \/ obj.h \in lookup THEN [obj EXCEPT !.h = NoHandle]
    ELSE [obj EXCEPT
             !.h = Ref(obj.h.c,
                       obj.h.i - Cardinality({r \in lookup : r.c = obj.h.c /\ r.i < obj.h.i})),
             !.self_ref = Node(d, Ref(obj.h.c,
                       obj.h.i - Cardinality({r \in lookup : r.c = obj.h.c /\ r.i < obj.h.i}))
                          ).self_ref]

\* The lists the pass holds, after a _delete_items with this lookup
MovedLists(lists, lookup, d) ==
    [n \in 1..Len(lists) |->
        [m \in 1..Len(lists[n]) |-> Moved(lists[n][m], lookup, d)] \o <<>>] \o <<>>

\* [_.get_ref() for _ in node_items] of the objects the pass holds
HeldRefs(curr_list_items) ==
    [k \in 1..Len(curr_list_items) |-> curr_list_items[k].self_ref] \o <<>>

\* Outcome of the body of the second loop: the document and the lookup of
\* its _delete_items
HealOut(st, d, lookup) == [st |-> st, doc |-> d, lookup |-> lookup]

\* for li in curr_list_items: self.add_list_item(..., parent=new_group, ...);
\* new_group is the object the pass holds.  When the document has dropped
\* it, the item is stored with the parent reference the group holds and is
\* named by the children of the dropped object only.
RECURSIVE AddToNewGroup(_, _, _, _)
AddToNewGroup(d, curr_list_items, k, new_group) ==
    IF k > Len(curr_list_items) THEN d
    ELSE LET li == curr_list_items[k] IN
         AddToNewGroup(
             IF new_group.h # NoHandle
             THEN add_list_item(d, li.uid, new_group.h, li.content_layer, li.prov)
             ELSE [d EXCEPT !.texts =
                      Append(@, NodeItem(li.uid, "list_item", Ref("texts", Len(d.texts)),
                                         new_group.self_ref, li.content_layer, <<>>,
                                         li.prov))],
             curr_list_items, k + 1, new_group)

\* The body of the second loop after delete_items ended with outcome del
\* and emptied the places of lookup: the items are added again under the
\* new group
ListDeleted(del, lookup, curr_list_items, new_group) ==
    IF del.st # "ok" THEN HealOut("raise", del.doc, {})
    ELSE HealOut("ok",
             AddToNewGroup(del.doc, curr_list_items, 1, Moved(new_group, lookup, del.doc)),
             lookup)

\* The body of the second loop after insert_item_before_sibling ended with
\* outcome ins: the items are deleted; the new group is the last of groups
GroupInserted(ins, curr_list_items, uid) ==
    IF ins.st # "ok" THEN HealOut(ins.st, ins.doc, {})
    ELSE ListDeleted(
             delete_items_refs(ins.doc, HeldRefs(curr_list_items)),
             deleted_lookup(ins.doc, HeldRefs(curr_list_items)),
             curr_list_items,
             [h |-> Ref("groups", Len(ins.doc.groups) - 1),
              self_ref |-> Ref("groups", Len(ins.doc.groups) - 1)])

\* A second loop that inserts the new ListGroup and leaves the items where
\* they are
HealList_KeepsItems(d, curr_list_items, uid) ==
    HealOut(insert_item_at_refitem(d, NewItem(uid, "list_group", <<>>),
                                   curr_list_items[1].self_ref, FALSE).st,
            insert_item_at_refitem(d, NewItem(uid, "list_group", <<>>),
                                   curr_list_items[1].self_ref, FALSE).doc,
            {})

\* The body of the second loop for one list: a new ListGroup (uid) goes
\* before the first item (the place its self_ref names), the items are
\* deleted, and each is added again under the new group
HealList(d, curr_list_items, uid) ==
    GroupInserted(
        insert_item_at_refitem(d, NewItem(uid, "list_group", <<>>),
                               curr_list_items[1].self_ref, FALSE),
        curr_list_items, uid)

\* for curr_list_items in reversed(misplaced_list_items): the k-th list from
\* the end gets the group uid + k - 1
RECURSIVE HealLists(_, _, _, _)
\* The second loop after its body ended with outcome r for the k-th list
HealListsAfter(r, lists, k, uid) ==
    IF r.st # "ok" THEN Out(r.st, r.doc)
    ELSE HealLists(r.doc, MovedLists(lists, r.lookup, r.doc), k + 1, uid)

HealLists(d, lists, k, uid) ==
    IF k > Len(lists) THEN Out("ok", d)
    ELSE HealListsAfter(HealList(d, lists[Len(lists) + 1 - k], uid + k - 1),
                        lists, k, uid)

\* The first loop over the pairs items that iterate_items yields on d
MisplacedAmong(d, items) ==
    IF IterRaises(items) THEN MisplacedOut("raise", <<>>)
    ELSE misplaced_list_items(d, items, 1, NoHandle, <<>>)

\* The lists the first loop of the pass finds in d
FindMisplaced(d) == MisplacedAmong(d, iterate_items(d, BodyRef, AllItemsOpts))

\* The second loop on the lists the first loop found
HealFound(found, d, uid) ==
    IF found.st # "ok" THEN Out("raise", d)
    ELSE HealLists(d, found.lists, 1, uid)

\* DoclingDocument.validate_misplaced_list_items; uid is the content of the
\* first group it creates
validate_misplaced_list_items(d, uid) == HealFound(FindMisplaced(d), d, uid)

\* ---------------------------------------------------- the healing machine
\* A caller builds a document in which list items can hang anywhere, and
\* runs the healing pass on it.

\* What the caller has after the pass, which found the lists of `found`
\* and created a group for each, ended with outcome r (a pass that does not
\* return is no step)
Healed(r, found) ==
    /\ r.st # "hang"
    /\ doc' = r.doc
    /\ nextUid' = nextUid + (IF found.st = "ok" THEN Len(found.lists) ELSE 0)
    /\ last' = [op |-> "validate_misplaced_list_items", raised |-> r.st # "ok",
                args |-> <<>>, flag |-> FALSE, pre |-> doc]

\* doc.validate_misplaced_list_items()
ValidateMisplacedListItems ==
    /\ last = NoCall
    /\ Healed(validate_misplaced_list_items(doc, nextUid), FindMisplaced(doc))
    /\ UNCHANGED <<shelf, table, pending>>

NextHeal ==
    \/ Return
    \/ AddText
    \/ AddGroup
    \/ AddListItem
    \/ AppendChildItem
    \/ InsertItemSibling
    \/ ValidateMisplacedListItems

SpecHeal == Init /\ [][NextHeal]_vars

\* ------------------------------------------ insert_node_items and callers
\* for ref in new_refs[::-1]: self.body._add_sibling(stack, ref, after), from
\* the k-th reference down to the first
RECURSIVE InsertRefsFrom(_, _, _, _, _)
\* The loop after _add_sibling ended with outcome r for the k-th reference
InsertRefsAfter(r, stack, refs, k, after) ==
    IF r.st # "ok" THEN Out("raise", r.doc)
    ELSE InsertRefsFrom(r.doc, stack, refs, k - 1, after)

InsertRefsFrom(d, stack, refs, k, after) ==
    IF k < 1 THEN Out("ok", d)
    ELSE InsertRefsAfter(add_sibling(d, BodyRef, stack, refs[k], after),
                         stack, refs, k, after)

\* insert_node_items after _get_stack_of_refitem ended with outcome gs on
\* the document that holds the copies
CopiesStacked(gs, copies, after) ==
    IF gs.st = "hang" THEN Out("hang", copies.doc)
    ELSE IF gs.st # "ok" THEN Out("raise", copies.doc)
    ELSE InsertRefsFrom(copies.doc, gs.stack, copies.refs, Len(copies.refs), after)

\* insert_node_items after _append_item_copies ended with outcome copies
CopiesAppended(copies, sibling_ref, after) ==
    IF copies.st # "ok" THEN Out("raise", copies.doc)
    ELSE CopiesStacked(get_stack_of_refitem(copies.doc, sibling_ref), copies, after)

\* parent = sibling.parent.resolve(self) if sibling.parent else self.body
SiblingParent(target, sibling) ==
    IF Node(target, sibling).parent = NoneRef THEN BodyRef
    ELSE resolve(target, Node(target, sibling).parent)

\* DoclingDocument.insert_node_items: node_items are handles of document
\* src, sibling is a handle of target
insert_node_items(target, sibling, node_items, src, after) ==
    IF SiblingParent(target, sibling) = NoHandle THEN Out("raise", target)
    ELSE IF /\ Node(target, SiblingParent(target, sibling)).kind # "list_group"
            /\ \E k \in 1..Len(node_items) :
                  node_items[k] # NoHandle /\ Node(src, node_items[k]).kind = "list_item"
    THEN Out("raise", target)
    ELSE CopiesAppended(
             append_item_copies(target, src, node_items, 1,
                 get_ref(Node(target, SiblingParent(target, sibling))), MaxDepth),
             get_ref(Node(target, sibling)), after)

\* node_items = [ref.resolve(doc) for ref in doc.body.children]
BodyItems(src) ==
    [n \in 1..Len(src.body.children) |-> resolve(src, src.body.children[n])] \o <<>>

\* DoclingDocument.insert_document
insert_document(target, src, sibling, after) ==
    IF \E n \in 1..Len(BodyItems(src)) : BodyItems(src)[n] = NoHandle
    THEN Out("raise", target)
    ELSE insert_node_items(target, sibling, BodyItems(src), src, after)

\* ----------------------------------------------------- the merge machine
\* A caller builds a document, puts it aside, builds a second one, and
\* copies nodes of the first into the second.

\* The lists of items of src a caller passes as node_items
ItemSeqs(src) == UNION {[1..n -> Items(src)] : n \in 1..MaxRefs}

\* The second document has room for n more nodes
Fits(n) == Cardinality(Items(doc)) + n <= MaxNodes

\* doc.insert_node_items(sibling, node_items, doc=first, after=...)
InsertNodeItems ==
    /\ Len(shelf) = 1
    /\ \E sibling \in Handles(doc), node_items \in ItemSeqs(shelf[1]), after \in BOOLEAN :
        /\ Fits(Len(node_items) * Cardinality(Items(shelf[1])))
        /\ Call("insert_node_items", <<sibling>> \o node_items, after,
                insert_node_items(doc, sibling, node_items, shelf[1], after), 0)

\* doc.insert_document(first, sibling, after)
InsertDocument ==
    /\ Len(shelf) = 1
    /\ \E sibling \in Handles(doc), after \in BOOLEAN :
        /\ Fits(Cardinality(Items(shelf[1])))
        /\ Call("insert_document", <<sibling>>, after,
                insert_document(doc, shelf[1], sibling, after), 0)

\* doc.add_node_items(node_items, doc=first, parent=...)
AddNodeItems ==
    /\ Len(shelf) = 1
    /\ \E parent \in Handles(doc), node_items \in ItemSeqs(shelf[1]) :
        /\ Fits(Len(node_items) * Cardinality(Items(shelf[1])))
        /\ Call("add_node_items", <<parent>> \o node_items, FALSE,
                add_node_items(doc, node_items, shelf[1], parent), 0)

NextMerge ==
    \/ Return
    \/ AddText
    \/ AddListItem
    \/ NextDocument
    \/ InsertNodeItems
    \/ InsertDocument
    \/ AddNodeItems

SpecMerge == Init /\ [][NextMerge]_vars

\* ---------------------------------------------------- the generator machine
\* iterate_items is a generator.  It runs only while the caller asks for the
\* next pair, it stops at `yield root, my_stack`, and between two pairs the
\* caller can call any other method of the document.  When resumed it reads
\* root.captions and root.children of the objects as they are then.

\* A call of _iterate_items_with_stack that has not returned.  h is the
\* place of its root object (NoHandle once the object has left the
\* document, node then holds the object).  begun says that the loop over
\* the children has started; it runs over a list object by position idx.
\* live says that the list object is still root.children, otherwise list
\* holds what is in it.  allowed is allowed_pic_refs.
Frame(h) ==
    [h |-> h, node |-> EmptyDoc.body, begun |-> FALSE, live |-> FALSE,
     list |-> <<>>, idx |-> 0, is_picture |-> FALSE, allowed |-> {}]

\* The root object of a call
FrameNode(d, f) == IF f.h = NoHandle THEN f.node ELSE Node(d, f.h)

\* Lines 4102-4111: allowed_pic_refs is computed and enumerate(root.children)
\* takes the list object
LoopBegun(d, f) ==
    [f EXCEPT !.begun = TRUE,
              !.node = EmptyDoc.body,
              !.live = f.h # NoHandle,
              !.list = IF f.h = NoHandle THEN f.node.children ELSE <<>>,
              !.idx = 0,
              !.is_picture = FrameNode(d, f).kind = "picture",
              !.allowed = IF FrameNode(d, f).kind = "picture"
                          THEN Range(FrameNode(d, f).captions) ELSE {}]

\* What one next() of the generator ends with: st is "yield" (item is the
\* pair handed to the caller), "stop" (StopIteration) or "raise"
GenOut(st, frames, item) == [st |-> st, frames |-> frames, item |-> item]

\* A pair handed to the caller: the object (uid), the place it has in the
\* document at that moment, and len(stack)
Pair(uid, h, level) == [uid |-> uid, h |-> h, level |-> level]

NoPair == Pair(0, NoHandle, 0)

RECURSIVE generator_enter(_, _, _)
RECURSIVE generator_resume(_, _, _)
\* The generator continues below its innermost call: the loop over the
\* children goes on, or the call returns to the one that made it
generator_resume(d, frames, o) ==
    IF Len(frames) = 0 THEN GenOut("stop", <<>>, NoPair)
    ELSE LET n == Len(frames)
             top == frames[n]
             below == SubSeq(frames, 1, n - 1)
         IN
         IF ~top.begun THEN generator_resume(d, below \o <<LoopBegun(d, top)>>, o)
         ELSE LET list == IF top.live THEN Node(d, top.h).children ELSE top.list IN
              IF top.idx >= Len(list) THEN generator_resume(d, below, o)
              ELSE LET child == resolve(d, list[top.idx + 1])
                       advanced == below \o <<[top EXCEPT !.idx = top.idx + 1]>>
                   IN
                   IF child = NoHandle THEN GenOut("raise", <<>>, NoPair)
                   ELSE IF /\ top.is_picture
                           /\ ~o.traverse_pictures
                           /\ Node(d, child).self_ref \notin top.allowed
                   THEN generator_resume(d, advanced, o)
                   ELSE generator_enter(d, advanced \o <<Frame(child)>>, o)

\* A call of _iterate_items_with_stack starts (lines 4074-4100): its root is
\* yielded with the stack of the calls around it, or the call goes on
generator_enter(d, frames, o) ==
    IF Len(frames) > MaxDepth THEN GenOut("raise", <<>>, NoPair)
    ELSE IF should_yield(FrameNode(d, frames[Len(frames)]), o)
    THEN GenOut("yield", frames,
                Pair(FrameNode(d, frames[Len(frames)]).uid, frames[Len(frames)].h,
                     Len(frames) - 1))
    ELSE generator_resume(d, frames, o)

\* it = doc.iterate_items(root, ...): nothing of the body has run yet
Begun(root, o) ==
    /\ last = NoCall
    /\ pending = NoPending
    /\ pending' = [at |-> "iter", fresh |-> TRUE, frames |-> <<Frame(root)>>,
                   opts |-> o, out |-> <<>>, root |-> root, pre |-> doc,
                   undisturbed |-> TRUE]
    /\ UNCHANGED <<doc, nextUid, last, shelf, table>>

IterBegin == \E root \in Handles(doc), o \in IterArgs : Begun(root, o)

IterBeginPictures == \E root \in Handles(doc), o \in PictureArgs : Begun(root, o)

\* What the caller has after next(it) ended as g: one more pair, or the end
\* of the traversal (StopIteration or an exception) with the pairs received
\* so far.  flag says that the document was the same from the creation of
\* the generator to its end, pre is that document.
Resumed(g) ==
    /\ IF g.st = "yield"
       THEN /\ pending' = [pending EXCEPT !.fresh = FALSE, !.frames = g.frames,
                                          !.out = Append(pending.out, g.item)]
            /\ UNCHANGED last
       ELSE /\ pending' = NoPending
            /\ last' = [op |-> "iterate_items", raised |-> g.st = "raise",
                        args |-> <<pending.root>>, flag |-> pending.undisturbed,
                        pre |-> pending.pre, opts |-> pending.opts,
                        out |-> pending.out]
    /\ UNCHANGED <<doc, nextUid, shelf, table>>

\* next(it)
IterNext ==
    /\ last = NoCall
    /\ pending.at = "iter"
    /\ Resumed(IF pending.fresh
               THEN generator_enter(doc, pending.frames, pending.opts)
               ELSE generator_resume(doc, pending.frames, pending.opts))

\* The place an object stored at h has after the places of lookup were
\* emptied (h itself is not one of them)
MovedHandle(h, lookup) ==
    Ref(h.c, h.i - Cardinality({r \in lookup : r.c = h.c /\ r.i < h.i}))

\* A suspended call after a _delete_items.  clean is the document after the
\* children were deleted in place (line 2259), removed the places that were
\* emptied, reassigned the places where _update_breadth_first_with_lookup
\* assigned node.children: there node.children is a new list (line 2390),
\* and a loop that runs over the old one keeps it as it was after line 2259.
MovedFrame(f, clean, removed, reassigned) ==
    IF f.h = NoHandle THEN f
    ELSE IF f.h \in removed
    THEN [f EXCEPT !.h = NoHandle,
                   !.node = IF f.begun THEN EmptyDoc.body ELSE Node(clean, f.h),
                   !.live = FALSE,
                   !.list = IF f.live THEN Node(clean, f.h).children ELSE f.list]
    ELSE [f EXCEPT !.h = MovedHandle(f.h, removed),
                   !.live = f.live /\ MovedHandle(f.h, removed) \notin reassigned,
                   !.list = IF f.live /\ MovedHandle(f.h, removed) \in reassigned
                            THEN Node(clean, f.h).children ELSE f.list]

MovedFrames(frames, clean, removed, reassigned) ==
    [n \in 1..Len(frames) |-> MovedFrame(frames[n], clean, removed, reassigned)] \o <<>>

\* The places "Remove the orphans in reverse order" has emptied when it
\* returns or raises (the del of RemoveOrphans that raises empties nothing)
RECURSIVE OrphansRemoved(_, _, _)
OrphansRemoved(d, labels, lookup) ==
    IF Len(labels) = 0 THEN {}
    ELSE IF ~\E r \in lookup : r.c = labels[1]
    THEN OrphansRemoved(d, Tail(labels), lookup)
    ELSE LET c == labels[1]
             i == CHOOSE x \in {r.i : r \in {y \in lookup : y.c = c}} :
                      \A r \in lookup : r.c = c => r.i <= x
             h == resolve(d, Ref(c, i))
         IN  IF h = NoHandle THEN {}
             ELSE {h} \cup OrphansRemoved([d EXCEPT ![c] = RemoveAt(@, h.i + 1)], labels,
                                          lookup \ {Ref(c, i)})

\* The places where _update_breadth_first_with_lookup has assigned
\* node.children (line 2390) when it returns or raises: the nodes it came to
\* and rewrote to the end
RECURSIVE Reassigned(_, _, _, _, _)
RECURSIVE ReassignedAt(_, _, _, _, _, _)
RECURSIVE ReassignedBelow(_, _, _, _, _, _)
RECURSIVE ReassignedNext(_, _, _, _, _, _, _)
Reassigned(d, node, refs_to_be_deleted, lookup, fuel) ==
    IF fuel = 0 THEN {}
    ELSE ReassignedAt(d, node, UpdateNode(Node(d, node), refs_to_be_deleted, lookup),
                      refs_to_be_deleted, lookup, fuel)

\* n is the outcome of rewriting the node
ReassignedAt(d, node, n, refs_to_be_deleted, lookup, fuel) ==
    IF n.st # "ok" THEN {}
    ELSE {node} \cup ReassignedBelow(SetNode(d, node, n.node), n.node.children, 1,
                                     refs_to_be_deleted, lookup, fuel)

ReassignedBelow(d, children, k, refs_to_be_deleted, lookup, fuel) ==
    IF k > Len(children) THEN {}
    ELSE IF resolve(d, children[k]) = NoHandle THEN {}
    ELSE ReassignedNext(d, children, k,
                        update_breadth_first_with_lookup(d, resolve(d, children[k]),
                                                         refs_to_be_deleted, lookup, fuel - 1),
                        refs_to_be_deleted, lookup, fuel)

\* r is the outcome of the walk below the k-th child
ReassignedNext(d, children, k, r, refs_to_be_deleted, lookup, fuel) ==
    Reassigned(d, resolve(d, children[k]), refs_to_be_deleted, lookup, fuel - 1)
    \cup IF r.st # "ok" THEN {}
         ELSE ReassignedBelow(r.doc, children, k + 1, refs_to_be_deleted, lookup, fuel)

\* What a _delete_items leaves to a suspended generator: the document after
\* the loop of line 2258 as far as it got, the places emptied and the places
\* whose children list was assigned anew
DeleteTrace(clean, removed, reassigned) ==
    [clean |-> clean, removed |-> removed, reassigned |-> reassigned]

\* _delete_items from "Remove the orphans" on: ct is the outcome of the loop
\* of line 2258, ro that of the removal of the orphans
TraceOrphans(refs, ct, ro) ==
    DeleteTrace(ct.doc,
                OrphansRemoved(ct.doc, LookupLabels(ct.tbd), OrphanLookup(ct.tbd)),
                IF ro.st # "ok" THEN {}
                ELSE Reassigned(ro.doc, BodyRef, refs, OrphanLookup(ct.tbd), MaxDepth))

\* _delete_items from line 2258 on
TraceClean(refs, ct) ==
    IF ct.st # "ok" THEN DeleteTrace(ct.doc, {}, {})
    ELSE TraceOrphans(refs, ct,
                      RemoveOrphans(ct.doc, LookupLabels(ct.tbd), OrphanLookup(ct.tbd)))

\* _delete_items with the entries tbd it has identified
TraceIdentified(d, refs, tbd) == TraceClean(refs, CleanTree(d, Range(tbd), tbd))

\* The changes of a _delete_items(refs) that changes d, whether it returns
\* or raises on the way
delete_items_trace(d, refs) ==
    TraceIdentified(d, refs,
        IdentifyDeleted(d, iterate_items_with_stack(d, BodyRef, AllItemsOpts, <<>>, MaxDepth),
                        1, refs, <<>>))

\* What the caller and the suspended generator have after delete_items
\* ended as r, with or without an exception, and left the trace t
DeletedBetween(r, t) ==
    /\ doc' = r.doc
    /\ pending' = IF pending.at = "iter" /\ r.doc # doc
                  THEN [pending EXCEPT
                           !.frames = MovedFrames(pending.frames, t.clean, t.removed,
                                                  t.reassigned),
                           !.undisturbed = FALSE,
                           !.pre = EmptyDoc]
                  ELSE pending
    /\ UNCHANGED <<nextUid, last, shelf, table>>

\* doc.delete_items(node_items=[item]), also between two pairs; the caller
\* goes on whether it returned or raised
DeleteBetween ==
    \E item \in Items(doc) :
        /\ last = NoCall
        /\ DeletedBetween(delete_items(doc, <<item>>),
                          delete_items_trace(doc, <<get_ref(Node(doc, item))>>))

NextIter ==
    \/ Return
    \/ BuildText
    \/ BuildGroup
    \/ InsertText
    \/ DeleteBetween
    \/ IterBegin
    \/ IterNext

SpecIter == Init /\ [][NextIter]_vars

\* a = add_text(); p = add_picture(parent=furniture); c = add_text(parent=p);
\* delete_items([a]); g = add_text(parent=furniture): the texts under
\* furniture are not renumbered by the delete, so that p.children and
\* furniture.children both name g
StalePicture ==
    LET a == Ref("texts", 0)
        p == Ref("pictures", 0)
        d1 == add_text(EmptyDoc, MaxNodes + 1, BodyRef, "body", <<>>)
        d2 == add_floating(d1, MaxNodes + 2, "picture", FurnitureRef, NoHandle)
        d3 == add_text(d2, MaxNodes + 3, p, "body", <<>>)
        d4 == delete_items(d3, <<a>>).doc
    IN  add_text(d4, MaxNodes + 4, FurnitureRef, "body", <<>>)

\* A caller starts on a new document, or on one that has been through the
\* calls of StalePicture and gets no further item
InitPictures ==
    /\ \/ doc = EmptyDoc /\ nextUid = 1
       \/ doc = StalePicture /\ nextUid = MaxNodes + 1
    /\ last = NoCall
    /\ shelf = <<>>
    /\ table = TableData(0, 0)
    /\ pending = NoPending

NextPictures ==
    \/ Return
    \/ PlainText
    \/ BuildPicture
    \/ CaptionChild
    \/ InsertText
    \/ DeleteBetween
    \/ IterBeginPictures
    \/ IterNext

SpecPictures == InitPictures /\ [][NextPictures]_vars

\* ---------------------------------------------------------------- TableData
\* A TableData is a record of table_cells (a list of cells), num_rows and
\* num_cols.  A cell is a TableCell or a RichTableCell; the RichTableCell has
\* a ref to the item of the document that holds its content, the TableCell
\* has none (NoneRef).

\* TableCell(text=text, start_row_offset_idx=i, end_row_offset_idx=i + 1,
\*           start_col_offset_idx=j, end_col_offset_idx=j + 1)
TableCell(text, i, j) ==
    [text |-> text, ref |-> NoneRef,
     start_row_offset_idx |-> i, end_row_offset_idx |-> i + 1,
     start_col_offset_idx |-> j, end_col_offset_idx |-> j + 1]

\* RichTableCell(ref=ref, text=text, start_row_offset_idx=i, ...)
RichTableCell(ref, text, i, j) == [TableCell(text, i, j) EXCEPT !.ref = ref]

\* isinstance(cell, RichTableCell)
IsRich(cell) == cell.ref # NoneRef

\* The refs of the RichTableCells of t, in the order of table_cells
RichRefs(t) ==
    LET rich == SelectSeq(t.table_cells, IsRich)
    IN  [k \in 1..Len(rich) |-> rich[k].ref] \o <<>>

\* The TableItem of the document the table machine works on; its data is
\* the TableData of the machine
TableRef == Ref("tables", 0)

\* table_item.data is t: the document d as it sees the RichTableCells of t
\* (a document without the TableItem sees nothing of t)
TableSeen(d, t) ==
    IF Len(d.tables) = 0 THEN d
    ELSE SetNode(d, TableRef, [Node(d, TableRef) EXCEPT !.cells = RichRefs(t)])

\* The cells of t from the k-th on, the n-th RichTableCell (counted from
\* the k-th cell) holding the ref refs[n]
RECURSIVE WithRichRefs(_, _, _)
WithRichRefs(cells, k, refs) ==
    IF k > Len(cells) THEN <<>>
    ELSE IF IsRich(cells[k])
    THEN <<[cells[k] EXCEPT !.ref = refs[1]]>> \o WithRichRefs(cells, k + 1, Tail(refs))
    ELSE <<cells[k]>> \o WithRichRefs(cells, k + 1, refs)

\* The TableData t after the document d has rewritten cell.ref of its
\* RichTableCells
DataSeen(d, t) ==
    IF Len(d.tables) = 0 THEN t
    ELSE [t EXCEPT !.table_cells = WithRichRefs(@, 1, Node(d, TableRef).cells)]

\* The outcome of a row operation: "ok" or the exception raised, and the
\* table as the operation leaves it
TOut(st, t) == [st |-> st, table |-> t]

\* The outcome of a row operation that takes the optional document: the
\* table, and the document (a list of no document, for None, or one) as the
\* operation leaves them
RowsOut(st, t, d) == [st |-> st, table |-> t, doc |-> d]

\* sorted(indices, reverse=True)
RECURSIVE sorted_reverse(_)
sorted_reverse(indices) ==
    IF Len(indices) = 0 THEN <<>>
    ELSE LET k == CHOOSE i \in 1..Len(indices) :
                      \A j \in 1..Len(indices) : indices[j] <= indices[i]
         IN  <<indices[k]>> \o sorted_reverse(RemoveAt(indices, k))

\* "Reassign row offset indices for existing cells" without the reassignment
ReassignRowOffsets_Kept(t) == t

\* for index, cell in enumerate(self.table_cells):
\*     cell.start_row_offset_idx = index // self.num_cols; end = start + 1
ReassignRowOffsets(t) ==
    [t EXCEPT !.table_cells =
        [k \in 1..Len(t.table_cells) |->
            [t.table_cells[k] EXCEPT
                !.start_row_offset_idx = (k - 1) \div t.num_cols,
                !.end_row_offset_idx = ((k - 1) \div t.num_cols) + 1]] \o <<>>]

\* removed_cells = self.table_cells[start_idx:end_idx]
removed_cells(t, row_index) ==
    Slice(t.table_cells, row_index * t.num_cols, (row_index * t.num_cols) + t.num_cols)

\* The table after the cells of row row_index were cut out and num_rows was
\* decremented (remove_rows, lines 440-443)
RowCut(t, row_index) ==
    [t EXCEPT !.table_cells = Slice(@, 0, row_index * t.num_cols)
                              \o Slice(@, (row_index * t.num_cols) + t.num_cols, Len(@)),
              !.num_rows = @ - 1]

\* The outcome of the loop of remove_rows: the table, and refs_to_remove
LoopOut(st, t, refs) == [st |-> st, table |-> t, refs |-> refs]

\* The loop of remove_rows over the sorted indices, from the k-th on; an
\* index out of bounds raises and leaves the rows removed so far removed
RECURSIVE RemoveRowsFrom(_, _, _, _)
\* The body of the loop after the row was cut out: the offsets are
\* reassigned (index // num_cols raises when num_cols is 0 and cells remain)
RemoveRowsCut(cut, indices, k, refs) ==
    IF cut.num_cols = 0 /\ Len(cut.table_cells) > 0
    THEN LoopOut("ZeroDivisionError", cut, refs)
    ELSE RemoveRowsFrom(ReassignRowOffsets(cut), indices, k + 1, refs)

RemoveRowsFrom(t, indices, k, refs) ==
    IF k > Len(indices) THEN LoopOut("ok", t, refs)
    ELSE IF indices[k] < 0 \/ indices[k] >= t.num_rows THEN LoopOut("IndexError", t, refs)
    ELSE RemoveRowsCut(RowCut(t, indices[k]), indices, k,
                       refs \o RichRefs([t EXCEPT !.table_cells = removed_cells(t, indices[k])]))

\* The end of remove_rows (lines 453-460) after the loop ended with outcome
\* lp: with refs_to_remove and a document, doc._delete_items(refs_to_remove)
\* runs on the document, which holds the table as the loop left it, and
\* rewrites the refs of the RichTableCells that remain
RowsRemoved(lp, doc_arg) ==
    IF lp.st # "ok" THEN RowsOut(lp.st, lp.table, doc_arg)
    ELSE IF Len(lp.refs) = 0 \/ Len(doc_arg) = 0 THEN RowsOut("ok", lp.table, doc_arg)
    ELSE LET r == delete_items_refs(TableSeen(doc_arg[1], lp.table), lp.refs)
         IN  RowsOut(r.st, DataSeen(r.doc, lp.table), <<r.doc>>)

\* TableData.remove_rows(indices, doc): doc_arg is the list of no document
\* (doc=None) or of the one document given
remove_rows(t, indices, doc_arg) ==
    IF Len(indices) = 0 THEN RowsOut("ok", t, doc_arg)
    ELSE RowsRemoved(RemoveRowsFrom(t, sorted_reverse(indices), 1, <<>>), doc_arg)

\* TableData.remove_row(row_index, doc)
remove_row(t, row_index, doc_arg) == remove_rows(t, <<row_index>>, doc_arg)

\* TableData.pop_row(doc)
pop_row(t, doc_arg) ==
    IF t.num_rows = 0 THEN RowsOut("IndexError", t, doc_arg)
    ELSE remove_row(t, t.num_rows - 1, doc_arg)

\* effective_index = row_index + (1 if after else 0)
effective_index(row_index, after) == row_index + (IF after THEN 1 ELSE 0)

\* new_row_cells of insert_row
new_row_cells(row, at) ==
    [j \in 1..Len(row) |-> TableCell(row[j], at, j - 1)] \o <<>>

\* The table after the new cells were spliced in (insert_row, lines 533-537)
RowSpliced(t, at, row) ==
    [t EXCEPT !.table_cells = Slice(@, 0, at * t.num_cols)
                              \o new_row_cells(row, at)
                              \o Slice(@, at * t.num_cols, Len(@))]

\* insert_row after the splice: the offsets are reassigned, then num_rows
\* is incremented
RowInserted(spliced) ==
    IF spliced.num_cols = 0 /\ Len(spliced.table_cells) > 0
    THEN TOut("ZeroDivisionError", spliced)
    ELSE TOut("ok", [ReassignRowOffsets(spliced) EXCEPT !.num_rows = @ + 1])

\* TableData.insert_row(row_index, row, after)
insert_row(t, row_index, row, after) ==
    IF Len(row) # t.num_cols THEN TOut("ValueError", t)
    ELSE IF effective_index(row_index, after) < 0
            \/ effective_index(row_index, after) > t.num_rows
    THEN TOut("IndexError", t)
    ELSE RowInserted(RowSpliced(t, effective_index(row_index, after), row))

\* for row in rows[::-1]: self.insert_row(row_index, row, after), from the
\* k-th row of rows down to the first
RECURSIVE InsertRowsFrom(_, _, _, _, _)
\* The loop after insert_row ended with outcome r for the k-th row
InsertRowsAfter(r, row_index, rows, k, after) ==
    IF r.st # "ok" THEN r
    ELSE InsertRowsFrom(r.table, row_index, rows, k - 1, after)

\* The loop taking the rows in the order given instead of rows[::-1]
InsertRowsFrom_Forward(t, row_index, rows, k, after) ==
    IF k < 1 THEN TOut("ok", t)
    ELSE InsertRowsAfter(insert_row(t, row_index, rows[Len(rows) + 1 - k], after),
                         row_index, rows, k, after)

InsertRowsFrom(t, row_index, rows, k, after) ==
    IF k < 1 THEN TOut("ok", t)
    ELSE InsertRowsAfter(insert_row(t, row_index, rows[k], after),
                         row_index, rows, k, after)

\* TableData.insert_rows(row_index, rows, after)
insert_rows(t, row_index, rows, after) ==
    InsertRowsFrom(t, row_index, rows, Len(rows), after)

\* TableData.add_row(row)
add_row(t, row) == insert_row(t, t.num_rows - 1, row, TRUE)

\* for row in rows: self.add_row(row), from the k-th row on
RECURSIVE AddRowsFrom(_, _, _)
\* The loop after add_row ended with outcome r for the k-th row
AddRowsAfter(r, rows, k) ==
    IF r.st # "ok" THEN r
    ELSE AddRowsFrom(r.table, rows, k + 1)

AddRowsFrom(t, rows, k) ==
    IF k > Len(rows) THEN TOut("ok", t)
    ELSE AddRowsAfter(add_row(t, rows[k]), rows, k)

\* TableData.add_rows(rows)
add_rows(t, rows) == AddRowsFrom(t, rows, 1)

\* ------------------------------------------------------- the table machine
\* A caller constructs a TableData and a document, adds the table to the
\* document, fills it with cells and calls the row operations on it, with
\* or without the document.

\* The texts of the cells callers write
Texts == {"a", "b"}

\* The rows (lists of strings) callers pass to a table of num_cols columns:
\* every row of that length, and one row of another length
Rows(num_cols) ==
    [1..num_cols -> Texts] \cup {IF num_cols = 0 THEN <<"a">> ELSE <<>>}

\* The lists of rows callers pass to insert_rows and add_rows
RowLists(num_cols) == UNION {[1..n -> Rows(num_cols)] : n \in 0..MaxArgs}

\* The row indices callers pass
RowIndices == (-1)..MaxRows

\* The lists of indices callers pass to remove_rows
IndexLists == UNION {[1..n -> RowIndices] : n \in 0..MaxArgs}

\* The doc argument callers pass: None, or the document
DocArgs == {<<>>, <<doc>>}

\* One call on the table that takes no document: op with arguments args
\* (and the boolean `after` as flag) ended with outcome r
TableCall(op, args, flag, r) ==
    /\ table' = r.table
    /\ last' = [op |-> op, raised |-> r.st # "ok", args |-> args, flag |-> flag,
                pre |-> table]
    /\ UNCHANGED <<doc, nextUid, shelf, pending>>

\* One call on the table that takes the optional document (flag tells
\* whether it was given) and ended with outcome r; the document holds the
\* table as the call left it
RowsCall(op, args, r) ==
    /\ table' = r.table
    /\ doc' = TableSeen(IF Len(r.doc) = 0 THEN doc ELSE r.doc[1], r.table)
    /\ last' = [op |-> op, raised |-> r.st # "ok", args |-> args, flag |-> Len(r.doc) > 0,
                pre |-> table]
    /\ UNCHANGED <<nextUid, shelf, pending>>

\* doc = DoclingDocument(name=...);
\* doc.add_table(data=TableData(num_rows=num_rows, num_cols=num_cols))
NewTable ==
    \E num_rows \in 0..MaxRows, num_cols \in 0..MaxCols :
        /\ doc = EmptyDoc
        /\ num_rows = 0 \/ (num_rows <= MaxBuiltRows /\ num_cols <= MaxBuiltCols)
        /\ Room(1)
        /\ table' = TableData(num_rows, num_cols)
        /\ doc' = add_floating(doc, nextUid, "table", BodyRef, NoHandle)
        /\ nextUid' = nextUid + 1
        /\ last' = [op |-> "add_table", raised |-> FALSE, args |-> <<num_rows, num_cols>>,
                    flag |-> FALSE, pre |-> table]
        /\ UNCHANGED <<shelf, pending>>

\* The caller is still filling the grid of the table it constructed
Filling == Len(table.table_cells) < table.num_rows * table.num_cols

\* doc.add_text(label=DocItemLabel.TEXT, text=..., parent=table_item): the
\* item a RichTableCell will refer to
CellText ==
    /\ Len(doc.tables) > 0
    /\ Filling
    /\ Room(1)
    /\ doc' = add_text(doc, nextUid, TableRef, "body", <<>>)
    /\ nextUid' = nextUid + 1
    /\ last' = [op |-> "add_text", raised |-> FALSE, args |-> <<TableRef>>,
                flag |-> FALSE, pre |-> table]
    /\ UNCHANGED <<table, shelf, pending>>

\* doc.add_table_cell(table_item=table_item, cell=cell) for the cell a
\* caller constructs for the next free place of the grid in row-major order:
\* the cell is appended to table_item.data.table_cells unless it is a
\* RichTableCell whose item hangs under another parent.  r is the outcome
\* for the document.
CellAdded(cell, r) ==
    /\ doc' = r.doc
    /\ table' = IF r.st = "ok" THEN [table EXCEPT !.table_cells = Append(@, cell)]
                 ELSE table
    /\ last' = [op |-> "add_table_cell", raised |-> r.st # "ok", args |-> <<cell>>,
                flag |-> FALSE, pre |-> table]
    /\ UNCHANGED <<nextUid, shelf, pending>>

\* cell = TableCell(text="a", ...)
AddCell ==
    /\ Len(doc.tables) > 0
    /\ Filling
    /\ CellAdded(TableCell("a", Len(table.table_cells) \div table.num_cols,
                           Len(table.table_cells) % table.num_cols),
                 Out("ok", doc))

\* cell = RichTableCell(ref=item.get_ref(), text="rich", ...)
AddRichCell ==
    /\ Len(doc.tables) > 0
    /\ Filling
    /\ \E item \in Handles(doc) :
          CellAdded(RichTableCell(get_ref(Node(doc, item)), "rich",
                                  Len(table.table_cells) \div table.num_cols,
                                  Len(table.table_cells) % table.num_cols),
                    add_table_cell(doc, TableRef, item))

\* The row operations are called on a table whose grid is filled

InsertRow ==
    \E row_index \in RowIndices, row \in Rows(table.num_cols), after \in BOOLEAN :
        /\ ~Filling
        /\ table.num_rows < MaxRows
        /\ TableCall("insert_row", <<row_index, row>>, after,
                     insert_row(table, row_index, row, after))

InsertRows ==
    \E row_index \in RowIndices, rows \in RowLists(table.num_cols), after \in BOOLEAN :
        /\ ~Filling
        /\ table.num_rows + Len(rows) <= MaxRows
        /\ TableCall("insert_rows", <<row_index, rows>>, after,
                     insert_rows(table, row_index, rows, after))

AddRow ==
    \E row \in Rows(table.num_cols) :
        /\ ~Filling
        /\ table.num_rows < MaxRows
        /\ TableCall("add_row", <<row>>, FALSE, add_row(table, row))

AddRows ==
    \E rows \in RowLists(table.num_cols) :
        /\ ~Filling
        /\ table.num_rows + Len(rows) <= MaxRows
        /\ TableCall("add_rows", <<rows>>, FALSE, add_rows(table, rows))

RemoveRow ==
    \E row_index \in RowIndices, d \in DocArgs :
        /\ ~Filling
        /\ RowsCall("remove_row", <<row_index>>, remove_row(table, row_index, d))

RemoveRows ==
    \E indices \in IndexLists, d \in DocArgs :
        /\ ~Filling
        /\ RowsCall("remove_rows", indices, remove_rows(table, indices, d))

PopRow ==
    \E d \in DocArgs :
        /\ ~Filling
        /\ RowsCall("pop_row", <<>>, pop_row(table, d))

NextTable ==
    \/ NewTable
    \/ CellText
    \/ AddCell
    \/ AddRichCell
    \/ InsertRow
    \/ InsertRows
    \/ AddRow
    \/ AddRows
    \/ RemoveRow
    \/ RemoveRows
    \/ PopRow

SpecTable == Init /\ [][NextTable]_vars

\* --------------------------------------------------------- version gate
\* A version string is modelled as the list of its dot-separated parts, each
\* part a numeral: a non-empty list of decimal digits ("1.10.0" is
\* <<<<1>>, <<1, 0>>, <<0>>>>).

\* CURRENT_VERSION = "1.6.0"
CURRENT_VERSION == <<<<1>>, <<6>>, <<0>>>>

\* The match object of a string VERSION_PATTERN does not match
NoMatch == [major |-> <<>>, minor |-> <<>>, patch |-> <<>>]

\* re.match(VERSION_PATTERN, v): the groups major, minor and patch of a
\* string of three numerals without leading zeros
VersionMatch(v) ==
    IF /\ Len(v) = 3
       /\ \A k \in 1..3 : Len(v[k]) = 1 \/ v[k][1] # 0
    THEN [major |-> v[1], minor |-> v[2], patch |-> v[3]]
    ELSE NoMatch

\* a > b for Python strings of digits a and b: the order of the first
\* position where they differ, a proper prefix being the smaller
RECURSIVE str_gt(_, _)
str_gt(a, b) ==
    IF Len(a) = 0 THEN FALSE
    ELSE IF Len(b) = 0 THEN TRUE
    ELSE IF a[1] # b[1] THEN a[1] > b[1]
    ELSE str_gt(SubSeq(a, 2, Len(a)), SubSeq(b, 2, Len(b)))

\* DoclingDocument.check_version_is_compatible(v): "raise" (ValueError), or
\* "ok" with the version the document gets
check_version_is_compatible(v) ==
    IF \/ VersionMatch(v) = NoMatch
       \/ VersionMatch(CURRENT_VERSION) = NoMatch
       \/ VersionMatch(v).major # VersionMatch(CURRENT_VERSION).major
       \/ str_gt(VersionMatch(v).minor, VersionMatch(CURRENT_VERSION).minor)
    THEN [st |-> "raise", version |-> v]
    ELSE [st |-> "ok", version |-> CURRENT_VERSION]

\* ------------------------------------------------------ the load machine
\* A caller loads documents whose version field holds any string of two or
\* three numerals.

\* The digits of the version strings callers load
Digits == {0, 1, 6, 7}

\* The numerals of one to MaxDigits digits
Numerals == UNION {[1..n -> Digits] : n \in 1..MaxDigits}

\* The version strings callers load
VersionStrings == UNION {[1..n -> Numerals] : n \in 2..3}

\* What the caller has after the version check ended with outcome r on v
VersionChecked(r, v) ==
    /\ last' = [op |-> "check_version_is_compatible", raised |-> r.st # "ok",
                args |-> <<v>>, flag |-> FALSE, pre |-> EmptyDoc, out |-> r.version]
    /\ UNCHANGED <<doc, nextUid, shelf, table, pending>>

\* DoclingDocument(name=..., version=v)
CheckVersion ==
    \E v \in VersionStrings :
        /\ last = NoCall
        /\ VersionChecked(check_version_is_compatible(v), v)

NextVersion ==
    \/ Return
    \/ CheckVersion

SpecVersion == Init /\ [][NextVersion]_vars

\* ================================================================ claims
\* Helpers of the properties below (not part of the program)

\* The call whose outcome the state shows
Completed(ops) == last.op \in ops /\ ~last.raised
Raised(ops) == last.op \in ops /\ last.raised

\* Handles of the nodes below handle h (h included), following children
RECURSIVE Descendants(_, _, _)
Descendants(d, h, fuel) ==
    IF fuel = 0 THEN {h}
    ELSE {h} \cup UNION {
            LET c == resolve(d, Node(d, h).children[k]) IN
            IF c = NoHandle THEN {} ELSE Descendants(d, c, fuel - 1)
            : k \in 1..Len(Node(d, h).children)}

InBodyTree(d) == Descendants(d, BodyRef, MaxDepth)

CollectionHandles(d) == Handles(d) \ {BodyRef, FurnitureRef}

\* C1: after every public mutation validate_tree(body) is true (children and
\* parent references are symmetric, rich table cells hang under their table)
C1_ValidateTreeHolds == validate_tree(doc, BodyRef, MaxDepth) = "ok"

\* C2: every element of every flat collection stores the self_ref of the
\* index it is stored at, whichever root it hangs under
C2_SelfRefMatchesIndex ==
    \A c \in Collections : \A k \in 1..Len(doc[c]) : doc[c][k].self_ref = Ref(c, k - 1)

\* The contents of the nodes stored in d
StoredUids(d) == {Node(d, h).uid : h \in CollectionHandles(d)}

\* The handle of the node with content uid (a node is stored once)
HandleOfUid(d, u) == CHOOSE h \in CollectionHandles(d) : Node(d, h).uid = u

\* Where the node at handle h of document d is in document e: roots stay,
\* others are found by content; NoHandle if it is gone
SameNode(d, h, e) ==
    IF h \in {BodyRef, FurnitureRef} THEN h
    ELSE IF \E g \in CollectionHandles(e) : Node(e, g).uid = Node(d, h).uid
    THEN HandleOfUid(e, Node(d, h).uid)
    ELSE NoHandle

\* The contents of the nodes a list of references resolves to (-1: dangling)
TargetUids(d, refs) ==
    [k \in 1..Len(refs) |->
        IF resolve(d, refs[k]) = NoHandle THEN -1 ELSE Node(d, resolve(d, refs[k])).uid]

\* 0-based position of the node at handle h among the children of its parent
ChildIndex(d, parent, h) ==
    IndexOf([k \in 1..Len(Node(d, parent).children) |->
                resolve(d, Node(d, parent).children[k])], h)

NoDuplicates(s) == \A i, j \in 1..Len(s) : s[i] = s[j] => i = j

\* A reference that is the true position of a stored node
Resolvable(d, ref) == ref.c \in Collections /\ ref.i >= 0 /\ ref.i < Len(d[ref.c])

\* The node at handle h is well linked: its self_ref is its position, its
\* parent resolves to handle p, and its children resolve to nodes that name
\* it as their parent
WellLinked(d, h, p) ==
    LET n == Node(d, h) IN
    /\ n.self_ref = h
    /\ n.parent # NoneRef /\ resolve(d, n.parent) = p
    /\ n.parent = Node(d, p).self_ref
    /\ NoDuplicates(n.children)
    /\ \A k \in 1..Len(n.children) :
          /\ Resolvable(d, n.children[k])
          /\ Node(d, n.children[k]).parent = n.self_ref

\* delete_items was called for one node of the body tree and removed it
SingleDelete ==
    /\ last.op = "delete_items"
    /\ Len(last.args) = 1
    /\ last.args[1] \in InBodyTree(last.pre) \ {BodyRef}
    /\ Node(last.pre, last.args[1]).uid \notin StoredUids(doc)

\* The state after add_text(t1), add_text(t2) under body and delete_items([t1])
TwoTextsFirstDeleted ==
    /\ SingleDelete
    /\ last.args[1] = Ref("texts", 0)
    /\ last.pre.body.children = <<Ref("texts", 0), Ref("texts", 1)>>
    /\ \A k \in 1..2 : /\ last.pre.texts[k].children = <<>>
                       /\ last.pre.texts[k].content_layer = "body"

\* C3: deleting the sibling at index k of N siblings leaves the other N-1 in
\* their order, each stored at the index its self_ref names, with parent and
\* children references that resolve and name each other, none dangling or
\* repeated; after add t1, add t2, delete t1, iterate_items() yields only t2,
\* whose self_ref is '#/texts/0'
C3_SiblingDeleteRenumbers ==
    SingleDelete =>
        LET pre == last.pre
            h == last.args[1]
            par == resolve(pre, Node(pre, h).parent)
            k == ChildIndex(pre, par, h)
            before == TargetUids(pre, Node(pre, par).children)
            par2 == SameNode(pre, par, doc)
        IN  /\ par2 # NoHandle
            /\ TargetUids(doc, Node(doc, par2).children) = RemoveAt(before, k + 1)
            /\ NoDuplicates(Node(doc, par2).children)
            /\ \A j \in 1..Len(Node(doc, par2).children) :
                  /\ Resolvable(doc, Node(doc, par2).children[j])
                  /\ WellLinked(doc, Node(doc, par2).children[j], par2)
            /\ TwoTextsFirstDeleted =>
                  /\ iterate_items(doc, BodyRef, DefaultOpts)
                        = <<[h |-> Ref("texts", 0), level |-> 1]>>
                  /\ doc.texts[1].uid = pre.texts[2].uid
                  /\ doc.texts[1].self_ref = Ref("texts", 0)

\* Every stored node of d is reached from body
AllReachable(d) == CollectionHandles(d) \subseteq InBodyTree(d)

\* The contents of the requested nodes and of their descendants
RequestedSubtrees(d, node_items) ==
    UNION {{Node(d, g).uid : g \in Descendants(d, node_items[k], MaxDepth) \ {BodyRef}} :
              k \in 1..Len(node_items)}

\* Collection c of d holds the nodes of collection c of e that are not in
\* gone, in the order of e
HoldsSurvivors(d, e, c, gone) ==
    LET keep(n) == n.uid \notin gone
        kept == SelectSeq(e[c], keep)
    IN  [k \in 1..Len(d[c]) |-> d[c][k].uid] = [k \in 1..Len(kept) |-> kept[k].uid]

\* No children list of d names a node in gone or nothing at all
NoChildIn(d, gone) ==
    \A h \in Handles(d) :
        \A k \in 1..Len(Node(d, h).children) :
            /\ resolve(d, Node(d, h).children[k]) # NoHandle
            /\ Node(d, resolve(d, Node(d, h).children[k])).uid \notin gone

\* A delete_items call that completed on a document all reachable from body
DeleteOnReachable == Completed({"delete_items"}) /\ AllReachable(last.pre)

\* C4: after delete_items completes on a document all reachable from body,
\* each collection holds exactly the nodes that were neither requested nor
\* below a requested node, in their order, and no children list names a
\* removed node
C4_OnlySurvivorsRemain ==
    DeleteOnReachable =>
        LET gone == RequestedSubtrees(last.pre, last.args)
        IN  /\ \A c \in Collections : HoldsSurvivors(doc, last.pre, c, gone)
            /\ NoChildIn(doc, gone)

\* The references new are what is left of the references old: each resolves,
\* to a node old named too and that is not in gone, in the order of old
SameTargets(d, new, e, old, gone) ==
    LET was == TargetUids(e, old)
        now == TargetUids(d, new)
        left(u) == u \in Range(now)
    IN  /\ \A k \in 1..Len(new) : Resolvable(d, new[k]) /\ now[k] \notin gone
        /\ now = SelectSeq(was, left)

\* C5: after delete_items completes, what remains of the captions of a
\* surviving floating item, and every rich cell ref of a surviving table,
\* resolves to the node it resolved to before, never to a removed node, to
\* another node or past the end of a collection
C5_CaptionsAndCellsFollow ==
    Completed({"delete_items"}) =>
        LET gone == StoredUids(last.pre) \ StoredUids(doc)
        IN  \A h \in CollectionHandles(doc) :
                Node(doc, h).kind \in FloatingKinds =>
                    LET n == Node(doc, h)
                        m == Node(last.pre, HandleOfUid(last.pre, n.uid))
                    IN  /\ SameTargets(doc, n.captions, last.pre, m.captions, gone)
                        /\ Len(n.cells) = Len(m.cells)
                        /\ SameTargets(doc, n.cells, last.pre, m.cells, gone)

\* Some requested node is not reached from body
SomeUnreachable(d, node_items) ==
    \E k \in 1..Len(node_items) : node_items[k] \notin InBodyTree(d)

\* C6: delete_items fails exactly when at least one requested reference is
\* not reachable from body, whatever the other requested references are
C6_FailsIffUnreachable ==
    last.op = "delete_items" => (last.raised <=> SomeUnreachable(last.pre, last.args))

\* C7: when append_child_item or insert_item_before/after_sibling raises, the
\* six collections and every node's parent and children are as before the
\* call; no orphaned collection entry remains
C7_RaiseLeavesDocument ==
    Raised({"append_child_item", "insert_item_sibling"}) => doc = last.pre

\* C8: after any public mutation completes, the parent of every ListItem
\* resolves to a ListGroup
C8_ListItemsUnderListGroups ==
    ~last.raised =>
        \A k \in 1..Len(doc.texts) :
            doc.texts[k].kind = "list_item" =>
                /\ doc.texts[k].parent # NoneRef
                /\ resolve(doc, doc.texts[k].parent) # NoHandle
                /\ Node(doc, resolve(doc, doc.texts[k].parent)).kind = "list_group"

\* The contents of the groups of d (the roots are no collection entries) that
\* have no child
EmptyGroups(d) == {d.groups[k].uid : k \in {j \in 1..Len(d.groups) : d.groups[j].children = <<>>}}

\* C9: after any public mutation completes, every GroupItem other
\* than the root has at least one child
C9_NoEmptyGroup == last # NoCall /\ ~last.raised => EmptyGroups(doc) = {}

\* The node reached from root by taking, at each step, the child at the next
\* index of stack (NoHandle if there is none)
RECURSIVE PathTarget(_, _, _)
PathTarget(d, root, stack) ==
    IF Len(stack) = 0 THEN root
    ELSE IF stack[1] >= Len(Node(d, root).children) THEN NoHandle
    ELSE LET child == resolve(d, Node(d, root).children[stack[1] + 1]) IN
         IF child = NoHandle THEN NoHandle ELSE PathTarget(d, child, Tail(stack))

\* The number of parent steps from the node at h up to root (-1 if root is
\* not above it)
RECURSIVE StepsUp(_, _, _, _)
StepsUp(d, h, root, fuel) ==
    IF h = root THEN 0
    ELSE IF fuel = 0 \/ Node(d, h).parent = NoneRef THEN -1
    ELSE LET p == resolve(d, Node(d, h).parent) IN
         IF p = NoHandle THEN -1
         ELSE LET up == StepsUp(d, p, root, fuel - 1) IN
              IF up < 0 THEN -1 ELSE up + 1

\* The traversal from root with options o is a pre-order walk: nothing
\* raises, no node comes twice, each emitted node is the one its path of child
\* indices leads to, its level is the length of that path and the number of
\* parent steps up to root, and the paths come in increasing order (a parent
\* before its children, siblings by index)
PreOrderFrom(d, root, o) ==
    LET items == iterate_items_with_stack(d, root, o, <<>>, MaxDepth)
        out == iterate_items(d, root, o)
    IN  /\ ~IterRaises(items)
        /\ Len(out) = Len(items)
        /\ \A i, j \in 1..Len(out) : out[i].h = out[j].h => i = j
        /\ \A k \in 1..Len(out) :
              /\ out[k].h = items[k].h
              /\ PathTarget(d, root, items[k].stack) = out[k].h
              /\ out[k].level = Len(items[k].stack)
              /\ out[k].level = StepsUp(d, out[k].h, root, MaxDepth)
              /\ should_yield(Node(d, out[k].h), o)
        /\ \A i, j \in 1..Len(items) : i < j => LexLess(items[i].stack, items[j].stack)

\* Two plain texts were added under body of an empty document
HelloWorld(d) ==
    /\ d.body.children = <<Ref("texts", 0), Ref("texts", 1)>>
    /\ Len(d.texts) = 2
    /\ \A k \in 1..2 : /\ d.texts[k].kind = "text"
                       /\ d.texts[k].children = <<>>
                       /\ d.texts[k].content_layer = "body"
                       /\ d.texts[k].parent = BodyRef

\* C10: iterate_items visits nodes depth-first in pre-order, siblings in the
\* order of the children list, each emitted node once, with a level equal to
\* the number of child-index steps from the iteration root, whichever node
\* of the document the iteration root is; after add_text('hello') and
\* add_text('world') under body, iterate_items() yields hello at level 1, then
\* world at level 1
C10_IterateIsPreOrder ==
    /\ \A root \in Handles(doc) :
          /\ PreOrderFrom(doc, root, DefaultOpts)
          /\ PreOrderFrom(doc, root, AllItemsOpts)
    /\ HelloWorld(doc) =>
          iterate_items(doc, BodyRef, DefaultOpts)
             = <<[h |-> Ref("texts", 0), level |-> 1], [h |-> Ref("texts", 1), level |-> 1]>>

\* The nodes a traversal from root comes to: root, and the children of every
\* node it comes to, except that below a picture only the children named in
\* the picture's captions are entered unless pictures are traversed
RECURSIVE VisitedFrom(_, _, _, _)
VisitedFrom(d, root, traverse_pictures, fuel) ==
    IF fuel = 0 THEN {root}
    ELSE LET r == Node(d, root)
             entered == {k \in 1..Len(r.children) :
                            /\ resolve(d, r.children[k]) # NoHandle
                            /\ \/ r.kind # "picture"
                               \/ traverse_pictures
                               \/ Node(d, resolve(d, r.children[k])).self_ref
                                     \in Range(r.captions)}
         IN  {root} \cup UNION {VisitedFrom(d, resolve(d, r.children[k]),
                                            traverse_pictures, fuel - 1) : k \in entered}

\* A content item carries a provenance entry on the page asked for
OnPage(node, page_no) == \E k \in 1..Len(node.prov) : node.prov[k] = page_no

\* The condition under which a visited node is emitted
EmitCondition(node, o) ==
    /\ node.kind \in GroupKinds => o.with_groups
    /\ (node.kind \in DocItemKinds /\ o.page_no # NoPage) => OnPage(node, o.page_no)
    /\ node.content_layer \in o.layers

\* The places of the nodes a consumed traversal handed to its caller
Emitted == {last.out[k].h : k \in 1..Len(last.out)}

\* A generator of iterate_items was consumed to its end, StopIteration or
\* an exception, and the document was not changed meanwhile (last.pre)
IterateEnded == last.op = "iterate_items" /\ last.flag

\* C11: iterate_items emits a visited node exactly when it is not a group or
\* with_groups is set, it is not a content item or no page filter is given or
\* one of its provenance entries is on the requested page, and its content
\* layer is in the allowed set (body only by default); the traversal goes on
\* to the children of a node it does not emit, so that they are visited
C11_EmitsIffFilterPasses ==
    IterateEnded =>
        /\ ~last.raised
        /\ Emitted = {h \in VisitedFrom(last.pre, last.args[1],
                                        last.opts.traverse_pictures, MaxDepth) :
                         EmitCondition(Node(last.pre, h), last.opts)}
        /\ last.opts.layers = DEFAULT_CONTENT_LAYERS =>
              \A h \in Emitted : Node(last.pre, h).content_layer = "body"

\* The children of the picture at p whose self_ref is not in its captions
UncaptionedChildren(d, p) ==
    {c \in {resolve(d, Node(d, p).children[k]) : k \in 1..Len(Node(d, p).children)} :
        c # NoHandle /\ Node(d, c).self_ref \notin Range(Node(d, p).captions)}

\* Everything at or below an uncaptioned child of a picture at or below root
BelowUncaptioned(d, root) ==
    UNION {Descendants(d, c, MaxDepth) :
             c \in UNION {UncaptionedChildren(d, p) :
                            p \in {q \in Descendants(d, root, MaxDepth) :
                                      Node(d, q).kind = "picture"}}}

\* The call asked for every visited node to be emitted
EmitsAllVisited ==
    /\ last.opts.with_groups
    /\ last.opts.page_no = NoPage
    /\ last.opts.layers = ContentLayer

\* C12: without traverse_pictures the children of a picture that iterate_items
\* enters are exactly those whose self_ref is in the picture's captions, with
\* their subtrees, and no other child of the picture nor any of its
\* descendants is ever emitted; with traverse_pictures every child of a
\* picture is entered
C12_PictureChildrenByCaption ==
    IterateEnded /\ ~last.raised =>
        /\ ~last.opts.traverse_pictures =>
              Emitted \cap BelowUncaptioned(last.pre, last.args[1]) = {}
        /\ EmitsAllVisited =>
              Emitted = IF last.opts.traverse_pictures
                        THEN Descendants(last.pre, last.args[1], MaxDepth)
                        ELSE Descendants(last.pre, last.args[1], MaxDepth)
                                \ BelowUncaptioned(last.pre, last.args[1])

\* insert_item_before_sibling / insert_item_after_sibling and the insert_*
\* factories that create one item
InsertOps ==
    {"insert_item_sibling", "insert_text", "insert_group", "insert_picture",
     "insert_table", "insert_key_values", "insert_form"}

\* The handles of the nodes the last call stored
NewHandles == {h \in CollectionHandles(doc) : Node(doc, h).uid \notin StoredUids(last.pre)}

\* The node at handle h is the last element of its collection and says so
LastOfCollection(d, h) == h.i = Len(d[h.c]) - 1 /\ Node(d, h).self_ref = h

\* The node at handle h of e was put next to sibling, a node of d: it has the
\* sibling's parent, and that parent's children are those of d with the
\* reference of h spliced in immediately before / after the sibling
PlacedBeside(d, e, sibling, h, after) ==
    LET parent_ref == Node(d, sibling).parent
        p == resolve(d, parent_ref)
    IN  /\ parent_ref # NoneRef /\ p # NoHandle
        /\ Node(e, h).parent = parent_ref
        /\ Node(e, sibling).parent = parent_ref
        /\ LET at == IndexOf(Node(d, p).children, sibling) IN
           /\ at >= 0
           /\ Node(e, p).children
                 = InsertAt(Node(d, p).children, at + (IF after THEN 2 ELSE 1), h)

\* The sibling argument of the last call is reachable from body
SiblingInBody == last.args[1] \in InBodyTree(last.pre) \ {BodyRef}

\* C13: after insert_item_before_sibling / insert_item_after_sibling
\* or any insert_* factory succeeds for a sibling reachable from body, the new
\* item is the last element of its collection with matching self_ref, its
\* parent is the sibling's parent and its reference sits in that parent's
\* children immediately before / after the sibling, the other children in
\* unchanged order
C13_InsertedBesideSibling ==
    (Completed(InsertOps \cup {"insert_list_item"}) /\ SiblingInBody) =>
        \E h \in NewHandles :
            /\ Node(doc, h).kind # "list_group" \/ last.op # "insert_list_item"
            /\ LastOfCollection(doc, h)
            /\ PlacedBeside(last.pre, doc, last.args[1], h, last.flag)

\* The children lists of the nodes of d other than the one at handle p are
\* the same in e
OtherChildrenKept(d, e, p) ==
    \A h \in Handles(d) \ {p} : Node(e, h).children = Node(d, h).children

\* The node at handle h of e was appended under the node at handle p of d:
\* it names p as its parent, it is the last child of p, and the children of
\* p are otherwise those of d
AppendedUnder(d, e, p, h) ==
    /\ Node(e, h).parent = p
    /\ Node(e, p).children = Append(Node(d, p).children, h)

\* C14: after append_child_item(child, parent) succeeds with a childless
\* child, child is the last element of its collection with self_ref equal to
\* that index, child.parent is the reference of parent, the reference of
\* child is the last entry of the children of that same parent, and no other
\* node's children list changes
C14_AppendedUnderParent ==
    Completed({"append_child_item"}) =>
        /\ Cardinality(NewHandles) = 1
        /\ \A h \in NewHandles :
              /\ LastOfCollection(doc, h)
              /\ AppendedUnder(last.pre, doc, last.args[1], h)
        /\ OtherChildrenKept(last.pre, doc, last.args[1])

\* The documents the last concatenate call was given
Inputs == Append(shelf, doc)

ConcatCompleted == last.op = "concatenate" /\ ~last.raised

\* The page numbers the result gives to the pages of docs[k], when every
\* input with pages is moved so that its smallest page number follows the
\* largest page number given out before it (by_min), or when every input is
\* moved by the largest page number given out before it
RECURSIVE AssignedPages(_, _, _)
RunningMax(docs, k, by_min) ==
    LET before == UNION {AssignedPages(docs, j, by_min) : j \in 1..(k - 1)} IN
    IF before = {} THEN 0 ELSE MaxOf(before)

Offset(docs, k, by_min) ==
    IF ~by_min THEN RunningMax(docs, k, by_min)
    ELSE IF docs[k].pages = {} THEN 0
    ELSE RunningMax(docs, k, by_min) - MinOf(docs[k].pages) + 1

AssignedPages(docs, k, by_min) ==
    {page_no + Offset(docs, k, by_min) : page_no \in docs[k].pages}

\* The content items of d that concatenate copies
CopiedItems(d) == {h \in InBodyTree(d) \ {BodyRef} : Node(d, h).kind \in DocItemKinds}

\* The result holds the pages of every input and the provenance of every
\* copied item moved by the offset of its input
PagesMovedBy(docs, out, by_min) ==
    /\ out.pages = UNION {AssignedPages(docs, k, by_min) : k \in 1..Len(docs)}
    /\ \A k \in 1..Len(docs) : \A h \in CopiedItems(docs[k]) :
          LET item == Node(docs[k], h) IN
          /\ item.uid \in StoredUids(out)
          /\ Node(out, HandleOfUid(out, item.uid)).prov
                = [n \in 1..Len(item.prov) |-> item.prov[n] + Offset(docs, k, by_min)]

\* Two documents with pages {1, 2} each became one with pages {1, 2, 3, 4},
\* the provenance of the first as it was and that of the second moved by 2
TwoByTwoPages(docs, out) ==
    (Len(docs) = 2 /\ docs[1].pages = {1, 2} /\ docs[2].pages = {1, 2}) =>
        /\ out.pages = {1, 2, 3, 4}
        /\ \A h \in CopiedItems(docs[1]) :
              Node(out, HandleOfUid(out, Node(docs[1], h).uid)).prov = Node(docs[1], h).prov
        /\ \A h \in CopiedItems(docs[2]) :
              Node(out, HandleOfUid(out, Node(docs[2], h).uid)).prov
                 = [n \in 1..Len(Node(docs[2], h).prov) |-> Node(docs[2], h).prov[n] + 2]

\* C15: concatenate moves the page numbers of each input (the keys
\* of the page registry and every provenance page_no) by the running maximum
\* page number of the documents before it; pages {1, 2} and {1, 2} become
\* {1, 2, 3, 4} with the second document's provenance moved by exactly 2
C15_OffsetIsRunningMax ==
    ConcatCompleted =>
        /\ PagesMovedBy(Inputs, last.out, FALSE)
        /\ TwoByTwoPages(Inputs, last.out)

\* The number of pages of the documents docs[1..k] together
RECURSIVE PageCount(_, _)
PageCount(docs, k) ==
    IF k = 0 THEN 0 ELSE PageCount(docs, k - 1) + Cardinality(docs[k].pages)

\* The provenance page numbers the result holds for the items of docs[k]
CopiedProvPages(docs, out, k) ==
    UNION {Range(Node(out, HandleOfUid(out, Node(docs[k], h).uid)).prov) :
             h \in {g \in CopiedItems(docs[k]) : Node(docs[k], g).uid \in StoredUids(out)}}

\* C16: in the result of concatenate pages never collide: it has as many
\* pages as the inputs have together, and no provenance page number of a node
\* that came from one input is a page number given to a page of another
\* input, whatever the page numbers of the inputs (and also for inputs that
\* have provenance but no pages)
C16_PagesNeverCollide ==
    ConcatCompleted =>
        /\ Cardinality(last.out.pages) = PageCount(Inputs, Len(Inputs))
        /\ \A k, j \in 1..Len(Inputs) :
              k # j => CopiedProvPages(Inputs, last.out, k)
                          \cap AssignedPages(Inputs, j, TRUE) = {}

\* The contents of the children of the body of each of docs[k..], in order
RECURSIVE BodyChildrenUids(_, _)
BodyChildrenUids(docs, k) ==
    IF k > Len(docs) THEN <<>>
    ELSE TargetUids(docs[k], docs[k].body.children) \o BodyChildrenUids(docs, k + 1)

\* The copy in out of the item at handle h of d has the children and the
\* captions and rich cells that are the copies of those of the item
CopyKeepsReferences(d, h, out) ==
    LET item == Node(d, h) IN
    /\ item.uid \in StoredUids(out)
    /\ LET copy == Node(out, HandleOfUid(out, item.uid)) IN
       /\ TargetUids(out, copy.children) = TargetUids(d, item.children)
       /\ TargetUids(out, copy.captions) = TargetUids(d, item.captions)
       /\ TargetUids(out, copy.cells) = TargetUids(d, item.cells)

\* C17: concatenate of valid documents remaps every internal reference: the
\* children of the result's body are the copies of the children of each
\* input's body in input order, every stored self_ref is the index it is
\* stored at, parent and children references are symmetric, and the captions
\* and rich cell references of every copied item resolve to the copies of
\* the items they named in the input
C17_ConcatenateRemapsReferences ==
    (ConcatCompleted /\ \A k \in 1..Len(Inputs) : validate_tree(Inputs[k], BodyRef, MaxDepth) = "ok")
    =>  /\ TargetUids(last.out, last.out.body.children) = BodyChildrenUids(Inputs, 1)
        /\ \A c \in Collections : \A n \in 1..Len(last.out[c]) :
              last.out[c][n].self_ref = Ref(c, n - 1)
        /\ validate_tree(last.out, BodyRef, MaxDepth) = "ok"
        /\ \A k \in 1..Len(Inputs) : \A h \in InBodyTree(Inputs[k]) \ {BodyRef} :
              CopyKeepsReferences(Inputs[k], h, last.out)

\* No two stored nodes of d have the same content
UniqueUids(d) ==
    \A g, h \in CollectionHandles(d) : Node(d, g).uid = Node(d, h).uid => g = h

\* The references of the siblings from start to end that the last
\* extract_items_range call selected, in the order of their parent's children
SelectedRefs ==
    LET d == last.pre
        p == resolve(d, Node(d, last.args[1]).parent)
        kids == Node(d, p).children
        i == IndexOf(kids, last.args[1]) + (IF last.inclusive[1] THEN 1 ELSE 2)
        j == IndexOf(kids, last.args[2]) + (IF last.inclusive[2] THEN 1 ELSE 0)
    IN  SubSeq(kids, i, j)

\* The nodes of the selected sibling subtrees
SelectedNodes ==
    UNION {Descendants(last.pre, SelectedRefs[k], MaxDepth) : k \in 1..Len(SelectedRefs)}

\* A list of references of out names the copies of what the list refs of d
\* names, as far as refs names nodes of the set kept
NamesCopies(d, refs, out, copy_refs, kept) ==
    /\ Len(copy_refs) = Len(refs)
    /\ \A k \in 1..Len(refs) :
          resolve(d, refs[k]) \in kept =>
             /\ resolve(out, copy_refs[k]) # NoHandle
             /\ Node(out, resolve(out, copy_refs[k])).uid = Node(d, resolve(d, refs[k])).uid

ExtractCompleted == last.op = "extract_items_range" /\ ~last.raised /\ UniqueUids(last.pre)

\* C18: extract_items_range returns a new document whose body children are
\* the copies, in order, of the selected sibling subtrees, with the same
\* internal structure, every reference fresh: each stored self_ref is the
\* index it is stored at, parents and children are symmetric, and the
\* children, captions and rich cells of a copy name, inside the new document,
\* the copies of the selected nodes the original names
C18_ExtractCopiesSubtrees ==
    ExtractCompleted =>
        LET d == last.pre
            out == last.out
        IN  /\ TargetUids(out, out.body.children) = TargetUids(d, SelectedRefs)
            /\ StoredUids(out) = {Node(d, h).uid : h \in SelectedNodes}
            /\ UniqueUids(out)
            /\ \A c \in Collections : \A n \in 1..Len(out[c]) : out[c][n].self_ref = Ref(c, n - 1)
            /\ validate_tree(out, BodyRef, MaxDepth) = "ok"
            /\ \A h \in SelectedNodes :
                  LET item == Node(d, h)
                      copy == Node(out, HandleOfUid(out, item.uid))
                  IN  /\ copy.kind = item.kind
                      /\ NamesCopies(d, item.children, out, copy.children, SelectedNodes)
                      /\ NamesCopies(d, item.captions, out, copy.captions, SelectedNodes)
                      /\ NamesCopies(d, item.cells, out, copy.cells, SelectedNodes)

\* Document d is as its factories leave it: every node is stored at the index
\* its self_ref names, both trees validate, every stored node hangs in one of
\* them and every caption names a stored node
Sound(d) ==
    /\ \A c \in Collections : \A n \in 1..Len(d[c]) : d[c][n].self_ref = Ref(c, n - 1)
    /\ validate_tree(d, BodyRef, MaxDepth) = "ok"
    /\ validate_tree(d, FurnitureRef, MaxDepth) = "ok"
    /\ CollectionHandles(d) \subseteq
          Descendants(d, BodyRef, MaxDepth) \cup Descendants(d, FurnitureRef, MaxDepth)
    /\ \A h \in CollectionHandles(d) : \A k \in 1..Len(Node(d, h).captions) :
          Resolvable(d, Node(d, h).captions[k])

\* The call recorded in ex is extract_items_range(c, c, inclusive, delete=True)
\* on a sound document whose body has the single child c
OnlyChildExtraction(ex) ==
    /\ ex.op = "extract_items_range"
    /\ ex.flag
    /\ ex.inclusive = <<TRUE, TRUE>>
    /\ ex.args[1] = ex.args[2]
    /\ ex.pre.body.children = <<ex.args[1]>>
    /\ UniqueUids(ex.pre)
    /\ Sound(ex.pre)

\* Document e is document d up to the numbering of its nodes: the same nodes,
\* each stored once and at the index its self_ref names, under the same parent
\* with the same children in the same order, naming the same captions
Isomorphic(d, e) ==
    /\ StoredUids(e) = StoredUids(d)
    /\ UniqueUids(e)
    /\ \A c \in Collections :
          /\ Len(e[c]) = Len(d[c])
          /\ \A n \in 1..Len(e[c]) : e[c][n].self_ref = Ref(c, n - 1)
    /\ validate_tree(e, BodyRef, MaxDepth) = "ok"
    /\ validate_tree(e, FurnitureRef, MaxDepth) = "ok"
    /\ TargetUids(e, e.body.children) = TargetUids(d, d.body.children)
    /\ TargetUids(e, e.furniture.children) = TargetUids(d, d.furniture.children)
    /\ \A h \in CollectionHandles(d) :
          LET item == Node(d, h)
              copy == Node(e, HandleOfUid(e, item.uid))
          IN  /\ copy.kind = item.kind
              /\ copy.content_layer = item.content_layer
              /\ copy.prov = item.prov
              /\ TargetUids(e, copy.children) = TargetUids(d, item.children)
              /\ TargetUids(e, copy.captions) = TargetUids(d, item.captions)
              /\ TargetUids(e, copy.cells) = TargetUids(d, item.cells)

\* C19: when the only child c of a document's body is extracted with
\* extract_items_range(c, c, inclusive, delete=True) and the returned document
\* is added back with add_document, neither call raises and the document is
\* the original one up to numbering, every collection numbered from 0 without
\* gaps
C19_RoundTripIsomorphic ==
    /\ OnlyChildExtraction(last) => ~last.raised
    /\ (last.op = "add_document" /\ OnlyChildExtraction(last.extraction)) =>
          ~last.raised /\ Isomorphic(last.extraction.pre, doc)

\* The healing pass has completed on last.pre and left doc
HealCompleted == last.op = "validate_misplaced_list_items" /\ ~last.raised

\* The groups of doc the last pass created
Synthesized ==
    {h \in CollectionHandles(doc) :
        Node(doc, h).kind \in GroupKinds /\ Node(doc, h).uid \notin StoredUids(last.pre)}

\* C20: when validate_misplaced_list_items has completed, running it again
\* completes and leaves the document as it is, and no ListGroup is a child of
\* a ListGroup the pass created
C20_HealIsIdempotent ==
    HealCompleted =>
        /\ validate_misplaced_list_items(doc, nextUid) = Out("ok", doc)
        /\ \A g \in Synthesized : \A k \in 1..Len(Node(doc, g).children) :
              LET c == resolve(doc, Node(doc, g).children[k]) IN
              c # NoHandle /\ Node(doc, c).kind # "list_group"

\* A pass that found misplaced list items, one of them below another, and
\* changed the document
C20_Witness ==
    /\ HealCompleted
    /\ doc # last.pre
    /\ Synthesized # {}
    /\ \E k \in 1..Len(FindMisplaced(last.pre).lists) : Len(FindMisplaced(last.pre).lists[k]) > 1

\* The list items of the body tree of d whose parent is no ListGroup
MisplacedIn(d) ==
    {h \in InBodyTree(d) \ {BodyRef} :
        /\ Node(d, h).kind = "list_item"
        /\ resolve(d, Node(d, h).parent) # NoHandle
        /\ Node(d, resolve(d, Node(d, h).parent)).kind # "list_group"}

\* Misplaced items a and b of d are neighbours in the children of one parent
SameRun(d, a, b) ==
    /\ Node(d, a).parent = Node(d, b).parent
    /\ LET kids == Node(d, resolve(d, Node(d, a).parent)).children IN
       \E k \in 1..(Len(kids) - 1) :
          kids[k] = Node(d, a).self_ref /\ kids[k + 1] = Node(d, b).self_ref

\* The content of the parent of the node with content uid in d (0: a root,
\* -1: the node or its parent is not there)
ParentUid(d, uid) ==
    IF Locate(d, uid) = NoHandle THEN -1
    ELSE LET p == resolve(d, Node(d, Locate(d, uid)).parent) IN
         IF p = NoHandle THEN -1 ELSE Node(d, p).uid

\* C21: when the healing pass has completed on a sound document, two
\* misplaced list items that were neighbours under one parent are children
\* of one new ListGroup, which hangs under that parent; and misplaced list
\* items that had different parents are in different groups
C21_RunsGroupedBySiblings ==
    (HealCompleted /\ Sound(last.pre) /\ UniqueUids(last.pre)) =>
        \A a, b \in MisplacedIn(last.pre) :
            LET ua == Node(last.pre, a).uid
                ub == Node(last.pre, b).uid
                ga == ParentUid(doc, ua)
                gb == ParentUid(doc, ub)
            IN  /\ ga \notin StoredUids(last.pre) \cup {-1, 0}
                /\ ParentUid(doc, ga) = ParentUid(last.pre, ua)
                /\ SameRun(last.pre, a, b) => ga = gb
                /\ Node(last.pre, a).parent # Node(last.pre, b).parent => ga # gb

\* C22: when the healing pass has completed on a sound document, every
\* misplaced list item is stored again as a list item with the same text
\* (uid), all its provenance entries and its content layer, under a
\* ListGroup; two misplaced items that end in one group keep their order;
\* and every node the document stored before the pass is still stored
C22_HealKeepsContent ==
    (HealCompleted /\ Sound(last.pre) /\ UniqueUids(last.pre)) =>
        /\ \A h \in MisplacedIn(last.pre) :
              LET n == Node(last.pre, h)
                  g == Locate(doc, n.uid)
              IN  /\ g # NoHandle
                  /\ Node(doc, g).kind = "list_item"
                  /\ Node(doc, g).prov = n.prov
                  /\ Node(doc, g).content_layer = n.content_layer
                  /\ resolve(doc, Node(doc, g).parent) # NoHandle
                  /\ Node(doc, resolve(doc, Node(doc, g).parent)).kind = "list_group"
        /\ \A a, b \in MisplacedIn(last.pre) :
              SameRun(last.pre, a, b) /\ Locate(doc, Node(last.pre, a).uid) # NoHandle
                  /\ Locate(doc, Node(last.pre, b).uid) # NoHandle
                  /\ ParentUid(doc, Node(last.pre, a).uid) = ParentUid(doc, Node(last.pre, b).uid)
              => SameRun(doc, Locate(doc, Node(last.pre, a).uid),
                              Locate(doc, Node(last.pre, b).uid))
        /\ StoredUids(last.pre) \subseteq StoredUids(doc)

\* A table of two rows and two columns with its four cells
TwoByTwo(t) == t.num_rows = 2 /\ t.num_cols = 2 /\ Len(t.table_cells) = 4

\* remove_row(0) has returned from a two by two table
RemovedFirstOfTwoByTwo ==
    /\ last.op = "remove_row"
    /\ ~last.raised
    /\ last.args = <<0>>
    /\ TwoByTwo(last.pre)

\* C23: after remove_row(0) on a two by two table, the table has one row
\* and two cells, and both row offsets of every cell are 0
C23_RemoveRowZeroOffsets ==
    RemovedFirstOfTwoByTwo =>
        /\ table.num_rows = 1
        /\ Len(table.table_cells) = 2
        /\ \A k \in 1..Len(table.table_cells) :
              /\ table.table_cells[k].start_row_offset_idx = 0
              /\ table.table_cells[k].end_row_offset_idx = 0

\* C23 (amended): after remove_row(0) on a two by two table, the table has
\* one row and two cells, and every cell has start_row_offset_idx 0 and
\* end_row_offset_idx 1
C23_RemoveRowZeroLeavesRowOne ==
    RemovedFirstOfTwoByTwo =>
        /\ table.num_rows = 1
        /\ Len(table.table_cells) = 2
        /\ \A k \in 1..Len(table.table_cells) :
              /\ table.table_cells[k].start_row_offset_idx = 0
              /\ table.table_cells[k].end_row_offset_idx = 1

\* remove_row(0) has returned from a two by two table whose second row had
\* the row offsets 1 and 2
C23_Witness ==
    /\ RemovedFirstOfTwoByTwo
    /\ \A k \in 3..4 :
          /\ last.pre.table_cells[k].start_row_offset_idx = 1
          /\ last.pre.table_cells[k].end_row_offset_idx = 2

\* The number a numeral denotes
RECURSIVE int(_)
int(numeral) ==
    IF Len(numeral) = 0 THEN 0
    ELSE int(SubSeq(numeral, 1, Len(numeral) - 1)) * 10 + numeral[Len(numeral)]

VersionCheckCompleted == last.op = "check_version_is_compatible"

\* C24: the version gate accepts a version exactly when the version has a
\* major and a minor number, the major number is the current one, and the
\* minor number, as an integer, is at most the current minor number
C24_AcceptsIffMinorAtMostCurrent ==
    VersionCheckCompleted =>
        (~last.raised <=>
            /\ VersionMatch(last.args[1]) # NoMatch
            /\ int(VersionMatch(last.args[1]).major) = int(VersionMatch(CURRENT_VERSION).major)
            /\ int(VersionMatch(last.args[1]).minor) <= int(VersionMatch(CURRENT_VERSION).minor))

\* The contents (uids) of the children of h in d, in order; -1 for a child
\* reference that resolves to nothing
ChildUids(d, h) ==
    [k \in 1..Len(Node(d, h).children) |->
        IF resolve(d, Node(d, h).children[k]) = NoHandle THEN -1
        ELSE Node(d, resolve(d, Node(d, h).children[k])).uid]

\* The contents of the subtree of h in d
SubtreeUids(d, h) == {Node(d, g).uid : g \in Descendants(d, h, MaxDepth)}

\* replace_item has returned for an old_item of the body tree other than
\* body
ReplaceCompleted ==
    /\ Completed({"replace_item"})
    /\ last.args[1] \in InBodyTree(last.pre) \ {BodyRef}

\* C25: after replace_item has returned for a non-root old_item of the body
\* tree, the children of old_item's parent are what they were with new_item
\* in the place of old_item, no node of old_item's subtree is stored any
\* more, and new_item.self_ref is the position new_item is stored at
C25_ReplaceTakesPlace ==
    ReplaceCompleted =>
        LET old == last.args[1]
            parent == resolve(last.pre, Node(last.pre, old).parent)
            k == ChildIndex(last.pre, parent, old) + 1
            new == Locate(doc, nextUid - 1)
        IN  /\ new # NoHandle
            /\ Node(doc, new).self_ref = new
            /\ SameNode(last.pre, parent, doc) # NoHandle
            /\ ChildUids(doc, SameNode(last.pre, parent, doc))
                  = [ChildUids(last.pre, parent) EXCEPT ![k] = nextUid - 1]
            /\ SubtreeUids(last.pre, old) \cap StoredUids(doc) = {}

\* The outcome delete_items_range has on the document and the arguments
\* of the extract_items_range call the state shows
DeleteOfSameRange ==
    delete_items_range(last.pre, last.args[1], last.args[2],
                       last.inclusive[1], last.inclusive[2])

\* C26: extract_items_range (without delete) and delete_items_range, called
\* with the same start, end and inclusive flags on the same document, raise
\* in the same cases and leave the document unchanged when they do, and
\* otherwise the nodes the one copies are the nodes the other deletes
C26_DeleteAndExtractAgree ==
    (last.op = "extract_items_range" /\ ~last.flag
         /\ Sound(last.pre) /\ UniqueUids(last.pre)) =>
        /\ last.raised <=> DeleteOfSameRange.st # "ok"
        /\ last.raised => doc = last.pre /\ DeleteOfSameRange.doc = last.pre
        /\ ~last.raised =>
              StoredUids(last.out) = StoredUids(last.pre) \ StoredUids(DeleteOfSameRange.doc)

MergeOps == {"insert_node_items", "insert_document", "add_node_items"}

\* C27: when insert_node_items, insert_document or add_node_items has
\* raised on a sound document, the document is as it was before the call
C27_FailedMergeLeavesDocument ==
    (Raised(MergeOps) /\ Sound(last.pre)) => doc = last.pre

\* The node at handle h of d is stored under its own reference, names the
\* node at handle p as its parent, and is named by the children of p
LinkedUnder(d, h, p) ==
    /\ Node(d, h).self_ref = h
    /\ Node(d, h).parent = get_ref(Node(d, p))
    /\ \E k \in 1..Len(Node(d, p).children) : Node(d, p).children[k] = h

\* C28: when every call runs to completion before the next starts, the node
\* a completed append_child_item has stored is linked under the parent the
\* caller gave, its self_ref is its index, and it is no orphan
C28_ExclusiveCallsLinkAsRequested ==
    Completed({"append_child_item"}) =>
        \A h \in NewHandles : LinkedUnder(doc, h, last.args[1])

\* C29: when remove_rows has raised, the table is as it was before the
\* call
C29_FailedRemoveRowsLeavesTable ==
    (last.op = "remove_rows" /\ last.raised) => table = last.pre

\* The cells of t are num_rows rows of num_cols cells, and the cell at list
\* position i (from 0) has the row offsets i div num_cols and that plus one
Grid(t) ==
    /\ Len(t.table_cells) = t.num_rows * t.num_cols
    /\ \A k \in 1..Len(t.table_cells) :
          /\ t.table_cells[k].start_row_offset_idx = (k - 1) \div t.num_cols
          /\ t.table_cells[k].end_row_offset_idx = ((k - 1) \div t.num_cols) + 1

\* The rows of a grid t, each the list of the texts of its cells
RowTexts(t) ==
    [r \in 1..t.num_rows |->
        [j \in 1..t.num_cols |-> t.table_cells[((r - 1) * t.num_cols) + j].text]]

\* A row operation has returned from a table that was a grid
RowCallCompleted(ops) == last.op \in ops /\ ~last.raised /\ Grid(last.pre)

\* The number of rows the completed call has added to the table (negative
\* for removed rows)
RowsAdded ==
    IF last.op \in {"insert_row", "add_row"} THEN 1
    ELSE IF last.op = "insert_rows" THEN Len(last.args[2])
    ELSE IF last.op = "add_rows" THEN Len(last.args[1])
    ELSE IF last.op \in {"remove_row", "pop_row"} THEN -1
    ELSE -Len(last.args)

\* After a row operation has returned from a grid, the table is a grid and
\* its rows are counted
RowsCounted ==
    RowCallCompleted({"insert_row", "insert_rows", "add_row", "add_rows",
                      "remove_row", "remove_rows", "pop_row"}) =>
        /\ Grid(table)
        /\ table.num_rows = last.pre.num_rows + RowsAdded

\* After insert_rows has returned from a grid, the rows of the table are
\* those it had, with the new rows, in the order given, at the effective
\* index
RowsInsertedInOrder ==
    RowCallCompleted({"insert_rows"}) /\ Len(last.args[2]) > 0 =>
        RowTexts(table)
            = SubSeq(RowTexts(last.pre), 1, effective_index(last.args[1], last.flag))
              \o last.args[2]
              \o SubSeq(RowTexts(last.pre), effective_index(last.args[1], last.flag) + 1,
                        last.pre.num_rows)

\* A pop_row that returns directly after an add_row that returned from a
\* grid leaves the table that add_row was called on
AddThenPopRestores ==
    (RowCallCompleted({"add_row"}) /\ last'.op = "pop_row" /\ ~last'.raised)
        => table' = last.pre

\* C30: on tables that are grids, every row operation that returns leaves a
\* grid (len(table_cells) = num_rows * num_cols, row offsets i div num_cols
\* and one more), num_rows goes up by one per inserted and down by one per
\* removed row, insert_rows places the new rows in the order given, and
\* add_row followed by pop_row restores the table
C30_RowOperationsKeepGrid ==
    /\ [](RowsCounted /\ RowsInsertedInOrder)
    /\ [][AddThenPopRestores]_vars

\* insert_rows has put two different rows between two rows of a table
C30_Witness ==
    /\ RowCallCompleted({"insert_rows"})
    /\ Len(last.args[2]) = 2
    /\ last.args[2][1] # last.args[2][2]
    /\ last.pre.num_cols = 2
    /\ last.pre.num_rows > 0

====
